---- MODULE Spec2Model ----
(***************************************************************************)
(* A model of phoenix_lib's LLM response normalisation:                    *)
(*   phoenix_lib/utils/text.py   strip_markdown_code_fences                *)
(*   phoenix_lib/llm/utils.py    normalize_result and its _extract_text    *)
(*                                                                         *)
(* Python strings are sequences of one-character strings.  A Python value  *)
(* is a tagged record; an attribute of an object is a record saying what   *)
(* hasattr() and the attribute read do.  A call either returns a string or *)
(* raises: its outcome is a record [exc, s].                               *)
(***************************************************************************)
EXTENDS Integers, Sequences, FiniteSets, TLC

\* ------------------------------------------------------------ characters

\* The backtick character (the lexer of TLA+ strings does not take it literally).
BT == "BACKTICK"
NL == "\n"
SP == " "
TAB == "\t"
CR == "\r"
FF == "\f"
QUOTE == "\""
BSL == "\\"

\* The control characters U+0000 to U+001F, in order; a character with no
\* escape in a TLA+ string is written as its code point.
ControlChars ==
    <<"U+0000", "U+0001", "U+0002", "U+0003", "U+0004", "U+0005", "U+0006",
      "U+0007", "U+0008", TAB, NL, "U+000B", FF, CR, "U+000E", "U+000F",
      "U+0010", "U+0011", "U+0012", "U+0013", "U+0014", "U+0015", "U+0016",
      "U+0017", "U+0018", "U+0019", "U+001A", "U+001B", "U+001C", "U+001D",
      "U+001E", "U+001F">>

\* str.strip() with no argument removes the characters str.isspace() is
\* true of: U+0009 to U+000D, U+001C to U+001F, the space, and the
\* separators beyond ASCII.
Whitespace ==
    {TAB, NL, "U+000B", FF, CR, "U+001C", "U+001D", "U+001E", "U+001F", SP,
     "U+0085", "U+00A0", "U+1680", "U+2000", "U+2001", "U+2002", "U+2003",
     "U+2004", "U+2005", "U+2006", "U+2007", "U+2008", "U+2009", "U+200A",
     "U+2028", "U+2029", "U+202F", "U+205F", "U+3000"}

\* The regular expression class [a-zA-Z0-9_-].
TagChars ==
    {"a", "b", "c", "d", "e", "f", "g", "h", "i", "j", "k", "l", "m",
     "n", "o", "p", "q", "r", "s", "t", "u", "v", "w", "x", "y", "z",
     "A", "B", "C", "D", "E", "F", "G", "H", "I", "J", "K", "L", "M",
     "N", "O", "P", "Q", "R", "S", "T", "U", "V", "W", "X", "Y", "Z",
     "0", "1", "2", "3", "4", "5", "6", "7", "8", "9", "_", "-"}

\* The literal of three backticks that opens and closes a fence.
FenceMarker == <<BT, BT, BT>>

\* ------------------------------------------------------- string helpers

\* str.startswith
StartsWith(s, p) == Len(s) >= Len(p) /\ SubSeq(s, 1, Len(p)) = p

\* What $ together with a literal suffix asks of the end of the text.
EndsWith(s, p) == Len(s) >= Len(p) /\ SubSeq(s, Len(s) - Len(p) + 1, Len(s)) = p

\* str.strip(): leading and trailing whitespace removed.
PyStrip(s) ==
    LET keep == {i \in 1..Len(s) : s[i] \notin Whitespace}
    IN  IF keep = {} THEN <<>>
        ELSE LET lo == CHOOSE i \in keep : \A j \in keep : i <= j
                 hi == CHOOSE i \in keep : \A j \in keep : j <= i
             IN  SubSeq(s, lo, hi)

\* The concatenation of a sequence of sequences, in order.
RECURSIVE FlattenRange(_, _, _)
FlattenRange(seqs, lo, hi) ==
    IF lo > hi THEN <<>>
    ELSE IF lo = hi THEN seqs[lo]
    ELSE FlattenRange(seqs, lo, (lo + hi) \div 2)
         \o FlattenRange(seqs, (lo + hi) \div 2 + 1, hi)

Flatten(seqs) == FlattenRange(seqs, 1, Len(seqs))

\* "\n".join(parts) for a sequence of strings.
RECURSIVE JoinLines(_)
JoinLines(parts) ==
    IF Len(parts) = 0 THEN <<>>
    ELSE IF Len(parts) = 1 THEN parts[1]
    ELSE parts[1] \o <<NL>> \o JoinLines(Tail(parts))

\* The generator (p for p in parts if p): the non-empty strings, in order.
NonEmpty(parts) == SelectSeq(parts, LAMBDA p : Len(p) > 0)

\* (mutant) the join that keeps the empty parts.
JoinKeepingEmpty(parts) == JoinLines(parts)

\* "\n".join(p for p in parts if p)
JoinNonEmpty(parts) == JoinLines(NonEmpty(parts))

\* ------------------------------------------------------- fence stripper

\* (mutant) the pattern without its closing marker: an unclosed fence
\* matches as well, the content running to the end of the text.
FenceLayoutsUnclosed(stripped, maxTag) ==
    {lay \in (0..maxTag) \X (1..Len(stripped)) \X {0, 1} :
        LET k == lay[1]
            n == lay[2]
            o == lay[3]
        IN  /\ StartsWith(stripped, FenceMarker)
            /\ 4 + k <= Len(stripped)
            /\ \A i \in 4..(3 + k) : stripped[i] \in TagChars
            /\ stripped[4 + k] = NL
            /\ \/ /\ 3 + k + 1 + n + o + 3 = Len(stripped)
                  /\ o = 1 => stripped[4 + k + n + 1] = NL
                  /\ EndsWith(stripped, FenceMarker)
               \/ /\ 3 + k + 1 + n = Len(stripped)
                  /\ o = 0}

\* (mutant) the pattern without the class of tag characters: only a fence
\* whose opening marker is followed at once by the line break matches.
FenceLayoutsUntagged(stripped, maxTag) ==
    {lay \in {0} \X (1..Len(stripped)) \X {0, 1} :
        LET n == lay[2]
            o == lay[3]
        IN  /\ 3 + 1 + n + o + 3 = Len(stripped)
            /\ StartsWith(stripped, FenceMarker)
            /\ stripped[4] = NL
            /\ o = 1 => stripped[4 + n + 1] = NL
            /\ EndsWith(stripped, FenceMarker)}

\* re.match(pattern, stripped, re.DOTALL) for the pattern
\*   ^ 3 backticks [a-zA-Z0-9_-]* \n (.+) \n? 3 backticks $      with the
\* tag limited to maxTag characters: the set of ways <<k, n, o>> the pattern
\* can be laid over the whole text: k tag characters, a line break, n >= 1
\* characters of content, o optional line breaks, the closing marker.
FenceLayouts(stripped, maxTag) ==
    {lay \in (0..maxTag) \X (1..Len(stripped)) \X {0, 1} :
        LET k == lay[1]
            n == lay[2]
            o == lay[3]
        IN  /\ 3 + k + 1 + n + o + 3 = Len(stripped)
            /\ StartsWith(stripped, FenceMarker)
            /\ \A i \in 4..(3 + k) : stripped[i] \in TagChars
            /\ stripped[4 + k] = NL
            /\ o = 1 => stripped[4 + k + n + 1] = NL
            /\ EndsWith(stripped, FenceMarker)}

\* The match the backtracking engine reports: every quantifier greedy, so the
\* longest tag, then the longest content.  group(1) of it.
FenceGroup(stripped, maxTag) ==
    LET lays == FenceLayouts(stripped, maxTag)
        best == CHOOSE a \in lays : \A b \in lays :
                    \/ a[1] > b[1]
                    \/ (a[1] = b[1] /\ a[2] >= b[2])
    IN  SubSeq(stripped, 4 + best[1] + 1, 4 + best[1] + best[2])

\* (mutant) the stripper handing back the trimmed text where the original is
\* due.
strip_fences_returns_trimmed(text) ==
    IF Len(text) = 0 THEN text
    ELSE LET stripped == PyStrip(text)
         IN  IF ~StartsWith(stripped, FenceMarker) THEN stripped
             ELSE IF FenceLayouts(stripped, Len(stripped)) # {}
                  THEN PyStrip(FenceGroup(stripped, Len(stripped)))
             ELSE IF FenceLayouts(stripped, 0) # {}
                  THEN PyStrip(FenceGroup(stripped, 0))
             ELSE stripped

\* (mutant) the stripper handing back the captured group as it is, not
\* trimmed.
strip_fences_untrimmed(text) ==
    IF Len(text) = 0 THEN text
    ELSE LET stripped == PyStrip(text)
         IN  IF ~StartsWith(stripped, FenceMarker) THEN text
             ELSE IF FenceLayouts(stripped, Len(stripped)) # {}
                  THEN FenceGroup(stripped, Len(stripped))
             ELSE IF FenceLayouts(stripped, 0) # {}
                  THEN FenceGroup(stripped, 0)
             ELSE text

\* strip_markdown_code_fences(text) for a string argument.
strip_markdown_code_fences(text) ==
    IF Len(text) = 0 THEN text
    ELSE LET stripped == PyStrip(text)
         IN  IF ~StartsWith(stripped, FenceMarker) THEN text
             ELSE IF FenceLayouts(stripped, Len(stripped)) # {}
                  THEN PyStrip(FenceGroup(stripped, Len(stripped)))
             ELSE IF FenceLayouts(stripped, 0) # {}
                  THEN PyStrip(FenceGroup(stripped, 0))
             ELSE text

\* --------------------------------------------------------- Python values

\* What a call hands back: a returned string, or an exception.
Ret(s) == [exc |-> FALSE, s |-> s]
Raised == [exc |-> TRUE, s |-> <<>>]

\* Values.  A tuple behaves as a list everywhere in this code.
PyNone == [t |-> "none"]
PyStr(s) == [t |-> "str", s |-> s]
PyInt(n) == [t |-> "int", n |-> n]
PyBool(b) == [t |-> "bool", b |-> b]
PyList(xs) == [t |-> "list", items |-> xs]
\* A dict is its entries in insertion order, each [key, val], keys distinct.
PyDict(ps) == [t |-> "dict", pairs |-> ps]

\* Dict keys: a string, an integer, or an object whose __str__ raises.
KStr(s) == [kt |-> "str", ks |-> s]
KInt(n) == [kt |-> "int", kn |-> n]
KBad == [kt |-> "bad"]

\* An attribute of an object: missing (the read raises AttributeError, so
\* hasattr is False); a plain value; a property that raises another exception
\* on every access (hasattr lets it through); a property that answers the
\* hasattr probe and raises when the code then reads it.
Absent == [k |-> "absent"]
Val(v) == [k |-> "val", v |-> v]
Raising == [k |-> "raise"]
Flaky == [k |-> "flaky"]

\* model_dump of an object: no such method; returns v; rejects the warnings
\* keyword with TypeError and returns v without it; rejects it and raises
\* on the second call as well; raises an exception that is no TypeError.
DumpOk(v) == [k |-> "ok", v |-> v]
DumpTypeErrorThenOk(v) == [k |-> "te_ok", v |-> v]
DumpTypeErrorThenRaise == [k |-> "te_raise"]
DumpRaises == [k |-> "raise"]

\* repr(value): a string, or an exception.
ReprIs(s) == [k |-> "val", s |-> s]
ReprRaises == [k |-> "raise"]

\* Any other object: its attributes of interest, its model_dump, its repr.
PyObj(content, text, choices, message, generations, dump, rep) ==
    [t |-> "obj", content |-> content, text |-> text, choices |-> choices,
     message |-> message, generations |-> generations, model_dump |-> dump,
     repr |-> rep]

AttrOf(value, name) ==
    CASE name = "content" -> value.content
      [] name = "text" -> value.text
      [] name = "choices" -> value.choices
      [] name = "message" -> value.message
      [] name = "generations" -> value.generations

\* hasattr(value, name): "yes", "no", or "raise" when the property raises
\* something that is not an AttributeError.  Strings, numbers, lists and
\* dicts have none of the attributes this code asks for.
HasAttr(value, name) ==
    IF value.t # "obj" THEN "no"
    ELSE LET a == AttrOf(value, name)
         IN  IF a.k = "absent" THEN "no"
             ELSE IF a.k = "raise" THEN "raise"
             ELSE "yes"

\* value.<name> read after hasattr said yes: does the read raise?
ReadRaises(value, name) == AttrOf(value, name).k # "val"

\* value.<name> when the read succeeds.
ReadAttr(value, name) == AttrOf(value, name).v

\* The key names the code looks up.
kContent == <<"c", "o", "n", "t", "e", "n", "t">>
kChoices == <<"c", "h", "o", "i", "c", "e", "s">>
kMessage == <<"m", "e", "s", "s", "a", "g", "e">>
kText == <<"t", "e", "x", "t">>

\* key in d, for a string key.
HasKey(d, name) == \E i \in 1..Len(d.pairs) : d.pairs[i].key = KStr(name)

\* d[key], for a string key the dict has.
Lookup(d, name) ==
    d.pairs[CHOOSE i \in 1..Len(d.pairs) : d.pairs[i].key = KStr(name)].val

\* isinstance(value, (list, tuple))
IsSequence(value) == value.t = "list"

\* ------------------------------------------------- str() and json.dumps

DigitChar(d) ==
    CASE d = 0 -> "0" [] d = 1 -> "1" [] d = 2 -> "2" [] d = 3 -> "3"
      [] d = 4 -> "4" [] d = 5 -> "5" [] d = 6 -> "6" [] d = 7 -> "7"
      [] d = 8 -> "8" [] d = 9 -> "9"

RECURSIVE NatStr(_)
NatStr(n) ==
    IF n < 10 THEN <<DigitChar(n)>>
    ELSE NatStr(n \div 10) \o <<DigitChar(n % 10)>>

\* str(value) for an int or a bool (a bool is an int whose str is its name).
ScalarStr(value) ==
    IF value.t = "bool"
    THEN (IF value.b THEN <<"T", "r", "u", "e">> ELSE <<"F", "a", "l", "s", "e">>)
    ELSE IF value.n < 0 THEN <<"-">> \o NatStr(0 - value.n)
    ELSE NatStr(value.n)

\* str(k) for a dict key.
KeyStr(key) ==
    IF key.kt = "str" THEN Ret(key.ks)
    ELSE IF key.kt = "int" THEN Ret(ScalarStr(PyInt(key.kn)))
    ELSE Raised

\* The JSON encoder's escapes: the quote, the backslash, and the control
\* characters, five of them by a letter and the others as \u00XX in lower
\* case (ensure_ascii=False leaves every other character alone).
JsonEscapeChar(c) ==
    LET hex == <<"0", "1", "2", "3", "4", "5", "6", "7", "8", "9",
                 "a", "b", "c", "d", "e", "f">>
        code == CHOOSE n \in 0..31 : ControlChars[n + 1] = c
    IN  IF c = QUOTE THEN <<BSL, QUOTE>>
        ELSE IF c = BSL THEN <<BSL, BSL>>
        ELSE IF c = NL THEN <<BSL, "n">>
        ELSE IF c = TAB THEN <<BSL, "t">>
        ELSE IF c = CR THEN <<BSL, "r">>
        ELSE IF c = FF THEN <<BSL, "f">>
        ELSE IF c = "U+0008" THEN <<BSL, "b">>
        ELSE IF \E n \in 0..31 : ControlChars[n + 1] = c
        THEN <<BSL, "u", "0", "0", hex[(code \div 16) + 1], hex[(code % 16) + 1]>>
        ELSE <<c>>

JsonEscape(s) == Flatten([i \in 1..Len(s) |-> JsonEscapeChar(s[i])])

JsonString(s) == <<QUOTE>> \o JsonEscape(s) \o <<QUOTE>>

\* ", ".join of the encoded entries.
RECURSIVE JsonEntries(_)
JsonEntries(entries) ==
    IF Len(entries) = 0 THEN <<>>
    ELSE JsonString(entries[1].key) \o <<":", SP>> \o JsonString(entries[1].val)
         \o (IF Len(entries) = 1 THEN <<>>
             ELSE <<",", SP>> \o JsonEntries(Tail(entries)))

\* (mutant) the encoder given the compact separators (",", ":").
RECURSIVE JsonEntriesCompact(_)
JsonEntriesCompact(entries) ==
    IF Len(entries) = 0 THEN <<>>
    ELSE JsonString(entries[1].key) \o <<":">> \o JsonString(entries[1].val)
         \o (IF Len(entries) = 1 THEN <<>>
             ELSE <<",">> \o JsonEntriesCompact(Tail(entries)))

json_dumps_compact(entries) == <<"{">> \o JsonEntriesCompact(entries) \o <<"}">>

\* json.dumps(normalized, ensure_ascii=False) for a dict of str to str, whose
\* entries are in insertion order.
json_dumps(entries) == <<"{">> \o JsonEntries(entries) \o <<"}">>

\* d[k] = v on a dict of str to str: a key already there keeps its place and
\* takes the new value, a new key goes last.
SetItem(entries, k, v) ==
    IF \E i \in 1..Len(entries) : entries[i].key = k
    THEN [i \in 1..Len(entries) |->
             IF entries[i].key = k THEN [key |-> k, val |-> v] ELSE entries[i]]
    ELSE Append(entries, [key |-> k, val |-> v])

\* The dict a comprehension builds from its <<key, value>> items, in order.
RECURSIVE DictOf(_)
DictOf(items) ==
    IF Len(items) = 0 THEN <<>>
    ELSE SetItem(DictOf(SubSeq(items, 1, Len(items) - 1)),
                 items[Len(items)].key, items[Len(items)].val)

\* Does any of these outcomes raise?
AnyRaised(rs) == \E i \in 1..Len(rs) : rs[i].exc

\* The strings of outcomes that all returned.
Strings(rs) == [i \in 1..Len(rs) |-> rs[i].s]

\* ------------------------------------------------------- _extract_text

\* How many frames the interpreter still allows where normalize_result
\* calls _extract_text: its recursion limit (1000 unless the program sets
\* another) less the depth in use, the frame of normalize_result included;
\* taken small here.  With n frames left, n plain calls nested in one
\* another succeed and one more raises RecursionError.
RecursionLimit == 20

RECURSIVE ExtractAt(_, _)

\* _extract_text(value) as normalize_result calls it.
_extract_text(value) == ExtractAt(value, RecursionLimit)

\* (mutant) the handler going on to the rules below the one that failed.
OnDelegateErrorFallsBack(value, name) ==
    _extract_text(IF name = "content" THEN [value EXCEPT !.content = Absent]
                  ELSE [value EXCEPT !.content = Absent, !.text = Absent])

\* The handler around the read of value.content and of value.text, and the
\* extraction of what was read: except Exception: return "".
OnDelegateError(value, name) == Ret(<<>>)

\* _extract_text(value) called with that many frames left.  What takes
\* frames, in CPython 3.11 once the code has run a few times: the call itself
\* (one, held while the calls it makes run); isinstance with a tuple of
\* classes (line 24: one, so any value but None and a string needs two);
\* the comprehensions of lines 29 and 32 (one each, held while the elements
\* are extracted); the join over a generator (line 33: two); json.dumps
\* (line 30: five); repr of an object whose class defines __repr__ (line 56:
\* three).  Where a frame is missing RecursionError is raised, which is an
\* Exception: the handlers of lines 37, 42 and 57 absorb it, nothing else in
\* _extract_text does.
ExtractAt(value, frames) ==
    IF frames = 0 THEN Raised
    ELSE IF value.t = "none" THEN Ret(<<>>)
    ELSE IF value.t = "str" THEN Ret(value.s)
    ELSE IF frames < 2 THEN Raised
    ELSE IF value.t \in {"int", "bool"} THEN Ret(ScalarStr(value))
    ELSE IF value.t = "dict" THEN
        IF HasKey(value, kContent)
        THEN ExtractAt(Lookup(value, kContent), frames - 1)
        ELSE IF frames < 6 THEN Raised
        ELSE LET ks == [i \in 1..Len(value.pairs) |-> KeyStr(value.pairs[i].key)]
                 vs == [i \in 1..Len(value.pairs) |->
                           ExtractAt(value.pairs[i].val, frames - 2)]
             IN  IF AnyRaised(ks) \/ AnyRaised(vs) THEN Raised
                 ELSE Ret(json_dumps(DictOf(
                        [i \in 1..Len(value.pairs) |->
                            [key |-> ks[i].s, val |-> vs[i].s]])))
    ELSE IF IsSequence(value) THEN
        IF frames < 3 THEN Raised
        ELSE LET parts == [i \in 1..Len(value.items) |->
                             ExtractAt(value.items[i], frames - 2)]
             IN  IF AnyRaised(parts) THEN Raised
                 ELSE Ret(JoinNonEmpty(Strings(parts)))
    ELSE IF HasAttr(value, "content") = "raise" THEN Raised
    ELSE IF HasAttr(value, "content") = "yes" THEN
        IF ReadRaises(value, "content") THEN OnDelegateError(value, "content")
        ELSE LET r == ExtractAt(ReadAttr(value, "content"), frames - 1)
             IN  IF r.exc THEN OnDelegateError(value, "content") ELSE r
    ELSE IF HasAttr(value, "text") = "raise" THEN Raised
    ELSE IF HasAttr(value, "text") = "yes" THEN
        IF ReadRaises(value, "text") THEN OnDelegateError(value, "text")
        ELSE LET r == ExtractAt(ReadAttr(value, "text"), frames - 1)
             IN  IF r.exc THEN OnDelegateError(value, "text") ELSE r
    ELSE IF value.model_dump.k = "te_raise" THEN Raised
    ELSE IF value.model_dump.k \in {"ok", "te_ok"} /\ value.model_dump.v.t # "none"
         THEN ExtractAt(value.model_dump.v, frames - 1)
    ELSE IF value.repr.k = "raise" \/ frames < 4 THEN Ret(<<>>)
    ELSE Ret(value.repr.s)

\* ----------------------------------------------------- normalize_result

\* (mutant) the choice asked for its text before its message.
ChoiceOfObjectTextFirst(c) ==
    IF HasAttr(c, "text") = "raise" THEN Raised
    ELSE IF HasAttr(c, "text") = "yes" THEN
        (IF ReadRaises(c, "text") THEN Raised
         ELSE _extract_text(ReadAttr(c, "text")))
    ELSE IF HasAttr(c, "message") = "raise" THEN Raised
    ELSE IF HasAttr(c, "message") = "yes" THEN
        (IF ReadRaises(c, "message") THEN Raised
         ELSE _extract_text(ReadAttr(c, "message")))
    ELSE _extract_text(c)

\* One pass of the loop over result.choices (the choices of an object).
ChoiceOfObject(c) ==
    IF HasAttr(c, "message") = "raise" THEN Raised
    ELSE IF HasAttr(c, "message") = "yes" THEN
        (IF ReadRaises(c, "message") THEN Raised
         ELSE _extract_text(ReadAttr(c, "message")))
    ELSE IF HasAttr(c, "text") = "raise" THEN Raised
    ELSE IF HasAttr(c, "text") = "yes" THEN
        (IF ReadRaises(c, "text") THEN Raised
         ELSE _extract_text(ReadAttr(c, "text")))
    ELSE _extract_text(c)

\* The body of the try in the branch for an object with a choices attribute.
TryChoices(choices) ==
    IF IsSequence(choices) THEN
        LET texts == [i \in 1..Len(choices.items) |->
                         ChoiceOfObject(choices.items[i])]
        IN  IF AnyRaised(texts) THEN Raised
            ELSE Ret(JoinNonEmpty(Strings(texts)))
    ELSE _extract_text(choices)

\* The branch for an object with a choices attribute.  The read of
\* result.choices is outside the try; whatever raises inside it sends the
\* whole result to _extract_text.
ObjectChoices(result) ==
    IF ReadRaises(result, "choices") THEN Raised
    ELSE IF TryChoices(ReadAttr(result, "choices")).exc THEN _extract_text(result)
    ELSE TryChoices(ReadAttr(result, "choices"))

\* One pass of the loop over result["choices"] (a dict's choices).
ChoiceOfDict(item) ==
    IF item.t = "dict" THEN
        (IF HasKey(item, kMessage) THEN _extract_text(Lookup(item, kMessage))
         ELSE IF HasKey(item, kText) THEN _extract_text(Lookup(item, kText))
         ELSE _extract_text(item))
    ELSE IF HasAttr(item, "message") = "raise" THEN Raised
    ELSE IF HasAttr(item, "message") = "yes" THEN
        (IF ReadRaises(item, "message") THEN Raised
         ELSE _extract_text(ReadAttr(item, "message")))
    ELSE _extract_text(item)

\* (mutant) the dict branch asking for the content key first.
DictResultContentFirst(result) ==
    IF HasKey(result, kContent) THEN _extract_text(Lookup(result, kContent))
    ELSE IF HasKey(result, kChoices) /\ IsSequence(Lookup(result, kChoices)) THEN
        LET items == Lookup(result, kChoices).items
            texts == [i \in 1..Len(items) |-> ChoiceOfDict(items[i])]
        IN  IF AnyRaised(texts) THEN Raised
            ELSE Ret(JoinNonEmpty(Strings(texts)))
    ELSE IF HasKey(result, kMessage) THEN _extract_text(Lookup(result, kMessage))
    ELSE _extract_text(result)

\* The branch for a dict.
DictResult(result) ==
    IF HasKey(result, kChoices) /\ IsSequence(Lookup(result, kChoices)) THEN
        LET items == Lookup(result, kChoices).items
            texts == [i \in 1..Len(items) |-> ChoiceOfDict(items[i])]
        IN  IF AnyRaised(texts) THEN Raised
            ELSE Ret(JoinNonEmpty(Strings(texts)))
    ELSE IF HasKey(result, kMessage) THEN _extract_text(Lookup(result, kMessage))
    ELSE _extract_text(result)

\* (mutant) the generation element asked for its content before its text.
GenerationElementContentFirst(e) ==
    IF HasAttr(e, "content") = "raise" THEN Raised
    ELSE IF HasAttr(e, "content") = "yes" THEN
        (IF ReadRaises(e, "content") THEN Raised
         ELSE _extract_text(ReadAttr(e, "content")))
    ELSE IF HasAttr(e, "text") = "raise" THEN Raised
    ELSE IF HasAttr(e, "text") = "yes" THEN
        (IF ReadRaises(e, "text") THEN Raised
         ELSE _extract_text(ReadAttr(e, "text")))
    ELSE _extract_text(e)

\* One generation element: text, else content, else itself.
GenerationElement(e) ==
    IF HasAttr(e, "text") = "raise" THEN Raised
    ELSE IF HasAttr(e, "text") = "yes" THEN
        (IF ReadRaises(e, "text") THEN Raised
         ELSE _extract_text(ReadAttr(e, "text")))
    ELSE IF HasAttr(e, "content") = "raise" THEN Raised
    ELSE IF HasAttr(e, "content") = "yes" THEN
        (IF ReadRaises(e, "content") THEN Raised
         ELSE _extract_text(ReadAttr(e, "content")))
    ELSE _extract_text(e)

\* A dict key as the value an iteration over the dict yields.
KeyValue(key) ==
    IF key.kt = "str" THEN PyStr(key.ks)
    ELSE IF key.kt = "int" THEN PyInt(key.kn)
    ELSE PyObj(Absent, Absent, Absent, Absent, Absent, Absent,
               ReprIs(<<"<", "K", ">">>))

\* for g in gens: the values the iteration yields ([ok |-> FALSE] when gens
\* is not iterable: None, a number, a plain object).
Iterate(gens) ==
    IF gens.t = "list" THEN [ok |-> TRUE, items |-> gens.items]
    ELSE IF gens.t = "str"
         THEN [ok |-> TRUE, items |-> [i \in 1..Len(gens.s) |-> PyStr(<<gens.s[i]>>)]]
    ELSE IF gens.t = "dict"
         THEN [ok |-> TRUE,
               items |-> [i \in 1..Len(gens.pairs) |-> KeyValue(gens.pairs[i].key)]]
    ELSE [ok |-> FALSE, items |-> <<>>]

\* The texts one g of the outer loop appends: a nested list gives one text
\* per element, anything else gives one text.
GenerationTexts(g) ==
    IF IsSequence(g) THEN [i \in 1..Len(g.items) |-> GenerationElement(g.items[i])]
    ELSE <<GenerationElement(g)>>

\* The branch for an object with a generations attribute.  The read of
\* result.generations is outside the try; whatever raises inside it leaves
\* output empty.
ObjectGenerations(result) ==
    IF ReadRaises(result, "generations") THEN Raised
    ELSE LET it == Iterate(ReadAttr(result, "generations"))
             texts == Flatten([i \in 1..Len(it.items) |->
                                  GenerationTexts(it.items[i])])
         IN  IF ~it.ok \/ AnyRaised(texts) THEN Ret(<<>>)
             ELSE Ret(JoinNonEmpty(Strings(texts)))

\* (mutant) the dispatch asking for a text attribute before choices.
ExtractedTextFirst(result) ==
    IF result.t = "none" THEN Ret(<<>>)
    ELSE IF result.t = "str" THEN Ret(result.s)
    ELSE IF HasAttr(result, "content") = "raise" THEN Raised
    ELSE IF HasAttr(result, "content") = "yes" THEN
        (IF ReadRaises(result, "content") THEN Raised
         ELSE _extract_text(ReadAttr(result, "content")))
    ELSE IF HasAttr(result, "text") = "yes" THEN _extract_text(result)
    ELSE IF HasAttr(result, "choices") = "raise" THEN Raised
    ELSE IF HasAttr(result, "choices") = "yes" THEN ObjectChoices(result)
    ELSE IF result.t = "dict" THEN DictResult(result)
    ELSE IF HasAttr(result, "generations") = "raise" THEN Raised
    ELSE IF HasAttr(result, "generations") = "yes" THEN ObjectGenerations(result)
    ELSE _extract_text(result)

\* (mutant) the content rule taking the content as text without recursing:
\* str(result.content), which for an object is its repr.
ExtractedContentAsText(result) ==
    IF result.t = "none" THEN Ret(<<>>)
    ELSE IF result.t = "str" THEN Ret(result.s)
    ELSE IF HasAttr(result, "content") = "raise" THEN Raised
    ELSE IF HasAttr(result, "content") = "yes" THEN
        (IF ReadRaises(result, "content") THEN Raised
         ELSE IF ReadAttr(result, "content").t = "obj"
              THEN (IF ReadAttr(result, "content").repr.k = "raise" THEN Raised
                    ELSE Ret(ReadAttr(result, "content").repr.s))
         ELSE _extract_text(ReadAttr(result, "content")))
    ELSE IF HasAttr(result, "choices") = "raise" THEN Raised
    ELSE IF HasAttr(result, "choices") = "yes" THEN ObjectChoices(result)
    ELSE IF result.t = "dict" THEN DictResult(result)
    ELSE IF HasAttr(result, "generations") = "raise" THEN Raised
    ELSE IF HasAttr(result, "generations") = "yes" THEN ObjectGenerations(result)
    ELSE _extract_text(result)

\* The value of the local variable output when line 132 is reached, or the
\* exception raised before it.
Extracted(result) ==
    IF result.t = "none" THEN Ret(<<>>)
    ELSE IF result.t = "str" THEN Ret(result.s)
    ELSE IF HasAttr(result, "content") = "raise" THEN Raised
    ELSE IF HasAttr(result, "content") = "yes" THEN
        (IF ReadRaises(result, "content") THEN Raised
         ELSE _extract_text(ReadAttr(result, "content")))
    ELSE IF HasAttr(result, "choices") = "raise" THEN Raised
    ELSE IF HasAttr(result, "choices") = "yes" THEN ObjectChoices(result)
    ELSE IF result.t = "dict" THEN DictResult(result)
    ELSE IF HasAttr(result, "generations") = "raise" THEN Raised
    ELSE IF HasAttr(result, "generations") = "yes" THEN ObjectGenerations(result)
    ELSE _extract_text(result)

\* (mutant) the fence stripper run a second time on its own result.
FinishTwice(out) ==
    IF out.exc THEN Raised
    ELSE Ret(strip_markdown_code_fences(strip_markdown_code_fences(out.s)))

\* The final step: the fence stripper on the computed text.
Finish(out) == IF out.exc THEN Raised ELSE Ret(strip_markdown_code_fences(out.s))

\* (mutant) the one element of a list dispatched like a top-level result.
normalize_result_same_table(result) ==
    IF IsSequence(result) /\ Len(result.items) = 1
    THEN Finish(Extracted(result.items[1]))
    ELSE Finish(Extracted(result))

normalize_result(result) == Finish(Extracted(result))

\* ---------------------------------------------------------------- inputs

\* Longest list of plain values among the inputs.
MaxItems == 3

\* Longest list of choices and of generations among the inputs.
MaxChoices == 2

\* Most entries of a dict among the inputs.
MaxKeys == 3

\* Most tokens (a fence marker, a line break, a letter, a space) of a string
\* given to normalize_result directly.
MaxTokens == 5

\* All sequences over S of length at most n.
SeqsUpTo(S, n) == UNION {[1..k -> S] : k \in 0..n}

Tokens == {FenceMarker, <<NL>>, <<"a">>, <<SP>>}

TokenStrings == {Flatten(ts) : ts \in SeqsUpTo(Tokens, MaxTokens)}

sA == <<"a">>
sB == <<"b">>
sFenced == FenceMarker \o <<NL, "a", NL>> \o FenceMarker
sFencedTwice == FenceMarker \o <<NL>> \o sFenced \o <<NL>> \o FenceMarker
sTagged == FenceMarker \o <<"j", "s", NL, "b", NL>> \o FenceMarker

Scalars ==
    {PyNone, PyInt(0), PyInt(42), PyInt(0 - 12), PyBool(TRUE), PyBool(FALSE)}

Leaves ==
    {PyNone, PyStr(<<>>), PyStr(sA), PyStr(sB), PyStr(sFenced), PyInt(42)}

LeafLists == {PyList(xs) : xs \in SeqsUpTo(Leaves, MaxItems)}

\* An object with none of the attributes, no model_dump, and a repr.
Plain ==
    PyObj(Absent, Absent, Absent, Absent, Absent, Absent, ReprIs(<<"<", "O", ">">>))

\* A dict from its entries.
Entry(k, v) == [key |-> KStr(k), val |-> v]

\* Objects met as choices, as generation elements and inside containers.
ChoiceObjects ==
    {[Plain EXCEPT !.message = m, !.text = t, !.content = c] :
        m \in {Absent, Val(PyStr(<<"m">>)), Flaky},
        t \in {Absent, Val(PyStr(<<"t">>)), Val(PyStr(<<>>))},
        c \in {Absent, Val(PyStr(<<"c">>))}}
    \cup {[Plain EXCEPT !.message = Raising],
          [Plain EXCEPT !.message = Val([Plain EXCEPT !.content = Val(PyStr(sFenced))])],
          [Plain EXCEPT !.text = Val(PyDict(<<[key |-> KBad, val |-> PyNone]>>))]}

\* Dicts met as choices.
ChoiceDicts ==
    {PyDict(m \o t \o c) :
        m \in {<<>>, <<Entry(kMessage, PyStr(<<"m">>))>>},
        t \in {<<>>, <<Entry(kText, PyStr(<<"t">>))>>, <<Entry(kText, PyStr(<<>>))>>},
        c \in {<<>>, <<Entry(kContent, PyStr(<<"c">>))>>}}
    \cup {PyDict(<<Entry(<<"k">>, PyStr(<<"v">>))>>),
          PyDict(<<Entry(kMessage, PyDict(<<Entry(kContent, PyStr(sFenced))>>))>>),
          PyDict(<<[key |-> KBad, val |-> PyNone]>>)}

\* Responses with a choices attribute or key, of both kinds of items.
ObjectChoiceInputs ==
    {[Plain EXCEPT !.choices = Val(PyList(cs))] :
        cs \in SeqsUpTo(ChoiceObjects, MaxChoices)}
    \cup {[Plain EXCEPT !.choices = Val(PyList(<<d>>))] : d \in ChoiceDicts}

DictChoiceInputs ==
    {PyDict(<<Entry(kChoices, PyList(cs))>>) :
        cs \in SeqsUpTo(ChoiceDicts, MaxChoices)}
    \cup {PyDict(<<Entry(kChoices, PyList(<<c>>))>>) : c \in ChoiceObjects}

\* Generation elements, the nested lists of them, and lists nested twice.
GenerationObjects ==
    {[Plain EXCEPT !.text = t, !.content = c] :
        t \in {Absent, Val(PyStr(<<"t">>)), Val(PyStr(<<>>)), Flaky},
        c \in {Absent, Val(PyStr(<<"c">>))}}

GenerationItems ==
    GenerationObjects
    \cup {PyList(es) :
            es \in SeqsUpTo({[Plain EXCEPT !.text = Val(PyStr(<<"t">>))],
                             [Plain EXCEPT !.content = Val(PyStr(<<"c">>))],
                             [Plain EXCEPT !.text = Val(PyStr(<<"u">>)),
                                           !.content = Val(PyStr(<<"c">>))]},
                            MaxChoices)}
    \cup {PyList(<<PyList(<<e>>)>>) :
            e \in {[Plain EXCEPT !.text = Val(PyStr(<<"u">>)),
                                 !.content = Val(PyStr(<<"c">>))],
                   [Plain EXCEPT !.text = Val(PyStr(<<"t">>))]}}

GenerationInputs ==
    {[Plain EXCEPT !.generations = Val(PyList(gs))] :
        gs \in SeqsUpTo(GenerationItems, MaxChoices)}
    \cup {[Plain EXCEPT !.generations = Val(g)] :
            g \in {PyNone, PyInt(42), PyStr(<<"a", "b">>), Plain}}

\* Objects with several of the attributes at once, well behaved or not.
SomeChoices ==
    {Absent, Raising, Flaky, Val(PyStr(<<"s">>)),
     Val(PyList(<<[Plain EXCEPT !.text = Val(PyStr(<<"x">>))]>>)),
     Val(PyList(<<[Plain EXCEPT !.message = Flaky]>>))}

SomeGenerations ==
    {Absent, Flaky, Val(PyNone),
     Val(PyList(<<[Plain EXCEPT !.text = Val(PyStr(<<"g">>))]>>))}

SomeDicts ==
    {PyDict(<<Entry(<<"k">>, PyStr(<<"v">>))>>),
     PyDict(<<Entry(<<"k">>, PyNone), Entry(kContent, PyStr(sB))>>)}

ObjectInputs ==
    {PyObj(c, t, ch, Absent, g, d, r) :
        c \in {Absent, Raising, Flaky, Val(PyStr(<<"c">>))},
        t \in {Absent, Flaky, Val(PyStr(<<"t">>))},
        ch \in SomeChoices,
        g \in SomeGenerations,
        d \in {Absent, DumpOk(PyDict(<<Entry(<<"k">>, PyStr(<<"v">>))>>))},
        r \in {ReprIs(<<"<", "O", ">">>)}}

\* Objects with one delegate field holding any small value.
DelegateInputs ==
    {[Plain EXCEPT !.content = Val(v)] : v \in Leaves \cup LeafLists \cup SomeDicts}
    \cup {[Plain EXCEPT !.text = Val(v)] : v \in Leaves \cup LeafLists \cup SomeDicts}
    \cup {[Plain EXCEPT !.content = Val([Plain EXCEPT !.content = Val(v)])] :
            v \in Leaves}
    \cup {[Plain EXCEPT !.content = Val(PyStr(sFencedTwice))],
          [Plain EXCEPT !.text = Val(PyStr(sTagged))]}

\* Deepest chain of objects, each the content of the one before.
MaxDepth == 3

\* n objects, each holding the next in its content field, around value v.
RECURSIVE ContentChain(_, _)
ContentChain(n, v) ==
    IF n = 0 THEN v ELSE [Plain EXCEPT !.content = Val(ContentChain(n - 1, v))]

\* Chains of up to MaxDepth objects, and chains as deep as the recursion
\* limit allows and deeper.
ContentChains ==
    {ContentChain(n, PyStr(s)) :
        n \in 1..MaxDepth,
        s \in {<<>>, sA, <<SP, "a", NL>>, sFenced, sFencedTwice, sTagged}}
    \cup {ContentChain(n, PyStr(s)) :
            n \in (RecursionLimit - 1)..(RecursionLimit + 2),
            s \in {sA, sFenced}}

\* Objects that reach the dump and the repr.
DumpInputs ==
    {[Plain EXCEPT !.model_dump = d, !.repr = r] :
        d \in {Absent, DumpRaises, DumpTypeErrorThenRaise, DumpOk(PyNone)}
              \cup {DumpOk(v) : v \in SomeDicts}
              \cup {DumpTypeErrorThenOk(v) : v \in SomeDicts},
        r \in {ReprIs(<<"<", "O", ">">>), ReprRaises}}

\* Dicts: every way to enter at most MaxKeys of these entries, keys distinct.
DictEntries ==
    {Entry(kContent, PyStr(<<"c">>)),
     Entry(kMessage, PyStr(<<"m">>)),
     Entry(kChoices, PyList(<<PyDict(<<Entry(kText, PyStr(<<"x">>))>>)>>)),
     Entry(kChoices, PyStr(<<"n">>)),
     Entry(<<"k">>, PyStr(<<"v">>)),
     Entry(<<"j">>, PyList(<<PyStr(sA), PyStr(<<QUOTE>>)>>)),
     [key |-> KInt(1), val |-> PyNone],
     Entry(<<"1">>, PyInt(42)),
     Entry(<<"U+0008">>, PyStr(<<FF, "U+0000", "U+001F", "U+007F", "U+00A0">>)),
     [key |-> KBad, val |-> PyStr(sA)]}

DictInputs ==
    {PyDict(ps) : ps \in {qs \in SeqsUpTo(DictEntries, MaxKeys) :
        \A i, j \in 1..Len(qs) : i # j => qs[i].key # qs[j].key}}

Inputs ==
    {PyStr(s) : s \in TokenStrings}
    \cup {PyStr(sFencedTwice), PyStr(sTagged),
          PyStr(<<FF>> \o sFenced \o <<"U+00A0">>),
          PyStr(FenceMarker \o <<NL, "U+001C", "a", "U+3000", NL>> \o FenceMarker),
          PyStr(<<"U+0008">> \o sFenced)}
    \cup Scalars \cup LeafLists
    \cup ObjectChoiceInputs \cup DictChoiceInputs \cup GenerationInputs
    \cup ObjectInputs \cup DelegateInputs \cup DumpInputs \cup DictInputs
    \cup ContentChains

\* ---------------------------------------------------------- the machine

VARIABLES
    result,     \* the argument of the call of normalize_result
    pc,         \* "ready": the call is to be made; "done": it has ended
    output,     \* the local variable output as handed to the fence stripper
    returned,   \* what the call handed back: a string, or an exception
    wraps,      \* how many times the caller has put the argument in a list
    inner       \* what the call returned for the argument before the last wrap

\* A direct call of strip_markdown_code_fences.
VARIABLES
    text,       \* the argument of the call: any value
    fpc,        \* "ready": the call is to be made; "done": it has returned
    stripped,   \* the value the call returned
    passes      \* how many times the caller has passed a result back in

\* A BaseUnitOfWork (of a subclass that caches one repository) and its caller.
VARIABLES
    _injected_session,  \* the session given at construction, or none
    _session,           \* the active session, or none
    _owns_session,      \* whether the unit of work created the active session
    factory,            \* whether the subclass overrides _create_session
    made,               \* how many sessions _create_session has returned
    creates,            \* how many times _create_session was called since an
                        \* __aexit__ last reached its end
    cached,             \* whether the subclass holds a cached repository
    calls,              \* the commit, rollback, close called on sessions so far
    depth,              \* how many contexts the caller has entered and not left
    flight,             \* the calls on the unit of work suspended at an await
    last                \* the latest call on the unit of work that has ended

\* An LLMClient, its tracing environment and the calls made on it.
VARIABLES
    tracing,                \* what the tracing environment provides
    _llm,                   \* the cached default model, or none
    _langfuse,              \* the cached Langfuse client, or none
    _langfuse_initialized,  \* whether the lookup of the client was made
    constructed,            \* how many default models were constructed
    lookups,                \* how many times get_client was called
    cpc,                    \* where each call stands
    invoked,                \* how many times each call invoked its chain
    first,                  \* what the first invocation of each call gave
    outcome,                \* what each call handed back
    sinkFailed              \* whether a tracing operation raised in the call

\* A call of load_yaml_config and the environment it reads.
VARIABLES
    environ,        \* the value of APP_CONFIG_PATH
    files,          \* what is found at each path
    local_path,     \* the argument local_path of the call
    docker_path,    \* the argument docker_path of the call
    ypc,            \* "ready": the call is to be made; "done": it has ended
    config_path,    \* the local variable config_path
    probed,         \* the paths whose exists() was asked, in order
    opened,         \* the paths that were opened, in order
    config          \* what the call handed back: a value, or an exception

\* A PromptLoader, its directory, and a call of load.
VARIABLES
    base_dir,       \* what <base_dir>/<name>.yaml is, for each name
    prompt_name,    \* the argument name of the call
    ppc,            \* "ready": the call is to be made; "done": it has ended
    template        \* what the call handed back: a value, or an exception

llmVars == <<result, pc, output, returned, wraps, inner>>

yamlVars ==
    <<environ, files, local_path, docker_path, ypc, config_path, probed,
      opened, config>>

promptVars == <<base_dir, prompt_name, ppc, template>>

loaderVars == <<yamlVars, promptVars>>

clientVars ==
    <<tracing, _llm, _langfuse, _langfuse_initialized, constructed, lookups,
      cpc, invoked, first, outcome, sinkFailed>>

uowVars ==
    <<_injected_session, _session, _owns_session, factory, made, cached,
      calls, depth, flight, last, creates>>

fenceVars == <<text, fpc, stripped, passes>>

vars == <<llmVars, fenceVars, uowVars, clientVars, loaderVars>>

\* How many times the caller nests its argument in a one-element list.
MaxWrap == 1

NoOutcome == [exc |-> FALSE, s |-> <<"?">>]

\* No call of normalize_result is made.
LlmIdle ==
    /\ result = PyNone
    /\ pc = "idle"
    /\ output = NoOutcome
    /\ returned = NoOutcome
    /\ wraps = 0
    /\ inner = NoOutcome

\* No direct call of the fence stripper is made.
FenceIdle ==
    /\ text = PyNone
    /\ fpc = "idle"
    /\ stripped = PyNone
    /\ passes = 0

\* The sessions: none, the injected one, the n-th that was created.
NoSession == <<"none", 0>>
InjectedSession == <<"injected", 0>>
CreatedSession(n) == <<"created", n>>

\* A session method that was called and awaited: the method and the session.
Await(op, on) == [op |-> op, on |-> on]

\* What a call on the unit of work raised.
NoException == "None"

\* A call on the unit of work that has ended: the method, for __aexit__
\* whether the block raised, the session held when it began, the session
\* methods it awaited, whether it ran _clear_repos, what it raised.
CallRecord(op, exc, on, ops, cleared, exception) ==
    [op |-> op, exc |-> exc, on |-> on, ops |-> ops, cleared |-> cleared,
     raised |-> exception # NoException, exception |-> exception]

NoCall == CallRecord("none", FALSE, NoSession, <<>>, FALSE, NoException)

\* Most calls on the unit of work suspended at an await at the same time.
MaxFlight == 2

Slots == 1..MaxFlight

\* A call suspended at an await: the method, for __aexit__ whether the
\* block raised, the session held when it began, the session methods the
\* branch it took awaits, and those it has awaited so far (the last of them
\* is the one in progress).
InFlight(op, exc, on, plan, ops) ==
    [op |-> op, exc |-> exc, on |-> on, plan |-> plan, ops |-> ops]

NotInFlight == InFlight("none", FALSE, NoSession, <<>>, <<>>)

\* No unit of work is in use.
UowIdle ==
    /\ _injected_session = NoSession
    /\ _session = NoSession
    /\ _owns_session = FALSE
    /\ factory = FALSE
    /\ made = 0
    /\ creates = 0
    /\ cached = FALSE
    /\ calls = <<>>
    /\ depth = 0
    /\ flight = [i \in Slots |-> NotInFlight]
    /\ last = NoCall

\* How many calls are made on the client, possibly at the same time.
MaxCallers == 2

Callers == 1..MaxCallers

\* The cached objects of the client: none, the n-th default model that was
\* constructed, the Langfuse client.
NoModel == <<"none", 0>>
DefaultModel(n) == <<"default", n>>
NoClient == "none"
LangfuseClient == "client"

\* A chain invocation that has not been made.
NotInvoked == [k |-> "none"]

\* No client is in use.
ClientIdle ==
    /\ tracing = "off"
    /\ _llm = NoModel
    /\ _langfuse = NoClient
    /\ _langfuse_initialized = FALSE
    /\ constructed = 0
    /\ lookups = 0
    /\ cpc = [c \in Callers |-> "idle"]
    /\ invoked = [c \in Callers |-> 0]
    /\ first = [c \in Callers |-> NotInvoked]
    /\ outcome = [c \in Callers |-> NoOutcome]
    /\ sinkFailed = [c \in Callers |-> FALSE]

\* The paths of the file system, and no path.
Paths == {"p1", "p2", "p3"}
NoPath == "None"

\* The prompt names.
Names == {"greeting", "other"}

\* A value handed back, and an exception of a class.
Returned(v) == [k |-> "return", v |-> v]
RaisedExc(cls) == [k |-> "raise", cls |-> cls]
NotCalled == [k |-> "none"]

\* No call of load_yaml_config is made.
YamlIdle ==
    /\ environ = "unset"
    /\ files = [p \in Paths |-> "missing"]
    /\ local_path = NoPath
    /\ docker_path = NoPath
    /\ ypc = "idle"
    /\ config_path = NoPath
    /\ probed = <<>>
    /\ opened = <<>>
    /\ config = NotCalled

\* No PromptLoader is in use.
PromptIdle ==
    /\ base_dir = [n \in Names |-> "missing"]
    /\ prompt_name = "greeting"
    /\ ppc = "idle"
    /\ template = NotCalled

Init ==
    /\ result \in Inputs
    /\ pc = "ready"
    /\ output = NoOutcome
    /\ returned = NoOutcome
    /\ wraps = 0
    /\ inner = NoOutcome
    /\ FenceIdle
    /\ UowIdle
    /\ ClientIdle
    /\ YamlIdle
    /\ PromptIdle

\* normalize_result(result) runs to its end.
Call ==
    /\ pc = "ready"
    /\ pc' = "done"
    /\ output' = Extracted(result)
    /\ returned' = normalize_result(result)
    /\ UNCHANGED <<result, wraps, inner>>
    /\ UNCHANGED <<fenceVars, uowVars, clientVars, loaderVars>>

\* The caller passes the same value again, as the only element of a list.
Wrap ==
    /\ pc = "done"
    /\ wraps < MaxWrap
    /\ result' = PyList(<<result>>)
    /\ inner' = returned
    /\ wraps' = wraps + 1
    /\ pc' = "ready"
    /\ output' = NoOutcome
    /\ returned' = NoOutcome
    /\ UNCHANGED <<fenceVars, uowVars, clientVars, loaderVars>>

Next == Call \/ Wrap

Spec == Init /\ [][Next]_vars

\* A call of normalize_result that was made runs: nothing else is scheduled
\* that could hold it back.  The step from ready to done is Call's, and Call
\* is possible for every argument.
LiveSpec == Spec /\ WF_pc(pc = "ready" /\ pc' = "done")

\* ------------------------------------------- the fence stripper, directly

\* (mutant) a value that is no string coerced to the empty string.
StripCallCoerces(value) ==
    IF value.t # "str" THEN PyStr(<<>>)
    ELSE PyStr(strip_markdown_code_fences(value.s))

\* strip_markdown_code_fences(text) for any argument: a value that is no
\* string comes back as it is.
StripCall(value) ==
    IF value.t # "str" THEN value
    ELSE PyStr(strip_markdown_code_fences(value.s))

\* Language tags, and one that the tag pattern does not take (it has a space).
Tags ==
    {<<>>, <<"j", "s", "o", "n">>, <<"J", "S", "O", "N">>, <<"J", "s">>,
     <<"s", "h", "-", "s", "e">>, <<"a", "_", "1">>, <<"c", SP, "d">>}

\* What stands between the opening line and the closing marker.
Bodies ==
    {<<>>, sA, <<SP, "a">>, <<"a", NL>>, <<"a", NL, NL, "b">>, <<"{", "}">>,
     <<BT>>, <<BT, BT, "a">>, <<NL>>, <<TAB, "a", SP, CR>>, sFenced,
     <<FF, "a", FF>>, <<"U+00A0", "a", "U+2028">>, <<"U+0008", "a", "U+007F">>}

\* The ways a fence is closed: on a line of its own, right after the body,
\* not at all.
Closings == {<<NL>> \o FenceMarker, FenceMarker, <<>>}

\* Whitespace around the whole text.
Paddings == {<<>>, <<SP>>, <<NL, TAB>>, <<FF>>, <<"U+00A0">>}

FencedTexts ==
    {lead \o FenceMarker \o tag \o <<NL>> \o body \o closing \o trail :
        lead \in Paddings, tag \in Tags, body \in Bodies,
        closing \in Closings, trail \in Paddings}

\* Prose before a fence, prose after one, a fence on one line.
PartialFences ==
    {<<"s", "o", "m", "e", NL>> \o sTagged,
     sTagged \o <<NL, "e", "n", "d">>,
     FenceMarker \o sA \o FenceMarker,
     FenceMarker \o <<"j", "s", NL, "{", "}">>}

NonStrings ==
    {PyNone, PyInt(0), PyInt(42), PyBool(FALSE), PyList(<<>>),
     PyList(<<PyStr(sFenced)>>), PyDict(<<>>), Plain}

FenceInputs ==
    {PyStr(s) : s \in TokenStrings \cup FencedTexts \cup PartialFences}
    \cup NonStrings

\* How many times the caller passes the result of the stripper back to it.
MaxPasses == 1

FenceInit ==
    /\ text \in FenceInputs
    /\ fpc = "ready"
    /\ stripped = PyNone
    /\ passes = 0
    /\ LlmIdle
    /\ UowIdle
    /\ ClientIdle
    /\ YamlIdle
    /\ PromptIdle

\* strip_markdown_code_fences(text) returns.
Strip ==
    /\ fpc = "ready"
    /\ fpc' = "done"
    /\ stripped' = StripCall(text)
    /\ UNCHANGED <<text, passes>>
    /\ UNCHANGED <<llmVars, uowVars, clientVars, loaderVars>>

\* The caller calls the stripper again, on what it returned.
Restrip ==
    /\ fpc = "done"
    /\ passes < MaxPasses
    /\ text' = stripped
    /\ passes' = passes + 1
    /\ fpc' = "ready"
    /\ stripped' = PyNone
    /\ UNCHANGED <<llmVars, uowVars, clientVars, loaderVars>>

FenceNext == Strip \/ Restrip

FenceSpec == FenceInit /\ [][FenceNext]_vars

\* ------------------------------------------------------- BaseUnitOfWork

\* Most sessions _create_session returns in a run.
MaxSessions == 2

\* Most session methods awaited in a run.
MaxAwaits == 4

\* Most calls of _create_session between two exits that reach their end.
MaxCreates == 2

\* Most contexts entered and not yet left.
MaxNest == 2

\* (mutant) the exit that commits whether or not the block raised.
ExitAwaitsCommitOnly(owned, exc) ==
    IF owned THEN <<"commit", "close">> ELSE <<"commit">>

\* (mutant) the exit that closes the session it did not create as well.
ExitAwaitsAlwaysClose(owned, exc) ==
    <<IF exc THEN "rollback" ELSE "commit", "close">>

\* The session methods __aexit__ awaits, in order, for an active session:
\* the branch for a session of its own and the branch for an external one.
ExitAwaits(owned, exc) ==
    IF owned THEN <<IF exc THEN "rollback" ELSE "commit", "close">>
    ELSE <<IF exc THEN "rollback" ELSE "commit">>

UowInit ==
    /\ _injected_session \in {NoSession, InjectedSession}
    /\ factory \in BOOLEAN
    /\ _session = NoSession
    /\ _owns_session = FALSE
    /\ made = 0
    /\ creates = 0
    /\ cached = FALSE
    /\ calls = <<>>
    /\ depth = 0
    /\ flight = [i \in Slots |-> NotInFlight]
    /\ last = NoCall
    /\ LlmIdle
    /\ FenceIdle
    /\ ClientIdle
    /\ YamlIdle
    /\ PromptIdle

\* (mutant) the session property that does not look at the session it holds.
SessionReadUncached ==
    IF _injected_session # NoSession
    THEN [ok |-> TRUE, s |-> _injected_session, owns |-> FALSE, made |-> made,
          asks |-> 0]
    ELSE IF factory
    THEN [ok |-> TRUE, s |-> CreatedSession(made + 1), owns |-> TRUE,
          made |-> made + 1, asks |-> 1]
    ELSE [ok |-> FALSE, s |-> _session, owns |-> _owns_session, made |-> made,
          asks |-> 1]

\* (mutant) the session property that takes the injected session for its own.
SessionReadOwnsInjected ==
    IF _session # NoSession
    THEN [ok |-> TRUE, s |-> _session, owns |-> _owns_session, made |-> made,
          asks |-> 0]
    ELSE IF _injected_session # NoSession
    THEN [ok |-> TRUE, s |-> _injected_session, owns |-> TRUE, made |-> made,
          asks |-> 0]
    ELSE IF factory
    THEN [ok |-> TRUE, s |-> CreatedSession(made + 1), owns |-> TRUE,
          made |-> made + 1, asks |-> 1]
    ELSE [ok |-> FALSE, s |-> _session, owns |-> _owns_session, made |-> made,
          asks |-> 1]

\* What a read of the session property leaves in _session, _owns_session
\* and made, and how many times it calls _create_session (asks); ok is false
\* when _create_session raises, as the method of the base class does.
SessionRead ==
    IF _session # NoSession
    THEN [ok |-> TRUE, s |-> _session, owns |-> _owns_session, made |-> made,
          asks |-> 0]
    ELSE IF _injected_session # NoSession
    THEN [ok |-> TRUE, s |-> _injected_session, owns |-> FALSE, made |-> made,
          asks |-> 0]
    ELSE IF factory
    THEN [ok |-> TRUE, s |-> CreatedSession(made + 1), owns |-> TRUE,
          made |-> made + 1, asks |-> 1]
    ELSE [ok |-> FALSE, s |-> _session, owns |-> _owns_session, made |-> made,
          asks |-> 1]

\* uow.session
session ==
    /\ made < MaxSessions
    /\ creates + SessionRead.asks <= MaxCreates
    /\ _session' = SessionRead.s
    /\ _owns_session' = SessionRead.owns
    /\ made' = SessionRead.made
    /\ creates' = creates + SessionRead.asks
    /\ last' = CallRecord("session", FALSE, _session, <<>>, FALSE,
                          IF SessionRead.ok THEN NoException
                          ELSE "NotImplementedError")
    /\ UNCHANGED <<_injected_session, factory, cached, calls, depth, flight>>
    /\ UNCHANGED <<llmVars, fenceVars, clientVars, loaderVars>>

\* A repository property of the subclass: the repository is built on
\* self.session the first time and cached.
repository ==
    /\ made < MaxSessions
    /\ IF cached
       THEN UNCHANGED <<_session, _owns_session, made, cached, creates>>
       ELSE /\ creates + SessionRead.asks <= MaxCreates
            /\ _session' = SessionRead.s
            /\ _owns_session' = SessionRead.owns
            /\ made' = SessionRead.made
            /\ creates' = creates + SessionRead.asks
            /\ cached' = SessionRead.ok
    /\ last' = CallRecord("repository", FALSE, _session, <<>>, FALSE,
                          IF cached \/ SessionRead.ok THEN NoException
                          ELSE "NotImplementedError")
    /\ UNCHANGED <<_injected_session, factory, calls, depth, flight>>
    /\ UNCHANGED <<llmVars, fenceVars, clientVars, loaderVars>>

\* A call can be suspended: fewer than MaxFlight are.
FreeSlot ==
    CHOOSE i \in Slots \cup {0} :
        \/ i = 0 /\ \A j \in Slots : flight[j] # NotInFlight
        \/ /\ i # 0 /\ flight[i] = NotInFlight
           /\ \A j \in 1..(i - 1) : flight[j] # NotInFlight

\* `await self._session.method()`: the method is called on the session held
\* at that moment and the call on the unit of work is suspended until it
\* ends; other calls on the unit of work run in the meantime.
Suspend(i, op, exc, on, plan, ops, method) ==
    /\ Len(calls) < MaxAwaits
    /\ calls' = Append(calls, Await(method, _session))
    /\ flight' = [flight EXCEPT ![i] =
                     InFlight(op, exc, on, plan,
                              Append(ops, Await(method, _session)))]

\* The end of __aexit__, after its awaits: _clear_repos(), then the session
\* is dropped if the unit of work owns the one it holds now.
Leave(exc, on, ops) ==
    /\ cached' = FALSE
    /\ creates' = 0
    /\ _session' = IF _owns_session THEN NoSession ELSE _session
    /\ _owns_session' = FALSE
    /\ last' = CallRecord("aexit", exc, on, ops, TRUE, NoException)

\* await uow.commit() and await uow.rollback(), up to the await.
Explicit(op) ==
    /\ IF _session = NoSession
       THEN /\ last' = CallRecord(op, FALSE, NoSession, <<>>, FALSE, NoException)
            /\ UNCHANGED <<calls, flight>>
       ELSE /\ FreeSlot # 0
            /\ Suspend(FreeSlot, op, FALSE, _session, <<op>>, <<>>, op)
            /\ UNCHANGED last
    /\ UNCHANGED <<_injected_session, _session, _owns_session, factory, made,
                   cached, depth, creates>>
    /\ UNCHANGED <<llmVars, fenceVars, clientVars, loaderVars>>

commit == Explicit("commit")

rollback == Explicit("rollback")

\* await uow.__aenter__()
__aenter__ ==
    /\ depth < MaxNest
    /\ depth' = depth + 1
    /\ last' = CallRecord("aenter", FALSE, _session, <<>>, FALSE, NoException)
    /\ UNCHANGED <<_injected_session, _session, _owns_session, factory, made,
                   cached, calls, flight, creates>>
    /\ UNCHANGED <<llmVars, fenceVars, clientVars, loaderVars>>

\* await uow.__aexit__(exc_type, exc_val, exc_tb), up to its first await:
\* exc says whether the block raised.  The branch is chosen and the commit
\* or the rollback is called on the session held now; with no session the
\* method awaits nothing and runs to its end.
__aexit__(exc) ==
    LET plan == IF _session # NoSession THEN ExitAwaits(_owns_session, exc)
                ELSE <<>>
    IN  /\ depth > 0
        /\ depth' = depth - 1
        /\ IF plan = <<>>
           THEN /\ Leave(exc, _session, <<>>)
                /\ UNCHANGED <<calls, flight>>
           ELSE /\ FreeSlot # 0
                /\ Suspend(FreeSlot, "aexit", exc, _session, plan, <<>>, plan[1])
                /\ UNCHANGED <<_session, _owns_session, cached, last, creates>>
        /\ UNCHANGED <<_injected_session, factory, made>>
        /\ UNCHANGED <<llmVars, fenceVars, clientVars, loaderVars>>

\* The session method the i-th suspended call awaits returns.  The call goes
\* on to its next await, on self._session as it is now (None has no close:
\* AttributeError), or to its end.
AwaitReturns(i) ==
    LET c == flight[i]
        k == Len(c.ops)
    IN  /\ c # NotInFlight
        /\ IF k < Len(c.plan)
           THEN IF _session = NoSession
                THEN /\ flight' = [flight EXCEPT ![i] = NotInFlight]
                     /\ last' = CallRecord(c.op, c.exc, c.on, c.ops, FALSE,
                                           "AttributeError")
                     /\ UNCHANGED <<calls, _session, _owns_session, cached,
                                    creates>>
                ELSE /\ Suspend(i, c.op, c.exc, c.on, c.plan, c.ops,
                                c.plan[k + 1])
                     /\ UNCHANGED <<_session, _owns_session, cached, last,
                                    creates>>
           ELSE /\ flight' = [flight EXCEPT ![i] = NotInFlight]
                /\ UNCHANGED calls
                /\ IF c.op = "aexit"
                   THEN Leave(c.exc, c.on, c.ops)
                   ELSE /\ last' = CallRecord(c.op, FALSE, c.on, c.ops, FALSE,
                                              NoException)
                        /\ UNCHANGED <<_session, _owns_session, cached,
                                       creates>>
        /\ UNCHANGED <<_injected_session, factory, made, depth>>
        /\ UNCHANGED <<llmVars, fenceVars, clientVars, loaderVars>>

\* The session method the i-th suspended call awaits raises: the call ends
\* there with that exception.
AwaitRaises(i) ==
    LET c == flight[i]
    IN  /\ c # NotInFlight
        /\ flight' = [flight EXCEPT ![i] = NotInFlight]
        /\ last' = CallRecord(c.op, c.exc, c.on, c.ops, FALSE, "SessionError")
        /\ UNCHANGED <<_injected_session, _session, _owns_session, factory,
                       made, cached, calls, depth, creates>>
        /\ UNCHANGED <<llmVars, fenceVars, clientVars, loaderVars>>

UowNext ==
    \/ session
    \/ repository
    \/ commit
    \/ rollback
    \/ __aenter__
    \/ \E exc \in BOOLEAN : __aexit__(exc)
    \/ \E i \in Slots : AwaitReturns(i)
    \/ \E i \in Slots : AwaitRaises(i)

UowSpec == UowInit /\ [][UowNext]_vars

\* ------------------------------------------------------------- LLMClient

\* What the environment provides for tracing: the LANGCHAIN_TRACING_V2 flag
\* says off; a langfuse import failed; the module has no callable
\* get_client; get_client raises; get_client returns None; it returns a
\* client.
TracingEnvironments ==
    {"off", "no_library", "no_get_client", "get_client_raises",
     "get_client_none", "client"}

\* What the model chain hands back when invoked: a response, or an exception.
Responses ==
    {PyStr(sA), PyStr(sB), PyStr(sFenced),
     [Plain EXCEPT !.content = Val(PyStr(sB))],
     [Plain EXCEPT !.content = Raising]}

ChainOutcomes == {[k |-> "ok", v |-> r] : r \in Responses} \cup {[k |-> "raise"]}

\* (mutant) the lookup that does not remember it was made.
LangfuseLookupAgain ==
    IF tracing \in {"off", "no_library"}
    THEN [client |-> NoClient, kept |-> _langfuse, looked |-> lookups]
    ELSE IF tracing = "no_get_client"
    THEN [client |-> NoClient, kept |-> NoClient, looked |-> lookups]
    ELSE IF tracing = "client"
    THEN [client |-> LangfuseClient, kept |-> LangfuseClient, looked |-> lookups + 1]
    ELSE [client |-> NoClient, kept |-> NoClient, looked |-> lookups + 1]

\* _get_langfuse_client(): the client it returns, and what it leaves in
\* _langfuse and in the count of get_client calls.
LangfuseLookup ==
    IF _langfuse_initialized
    THEN [client |-> _langfuse, kept |-> _langfuse, looked |-> lookups]
    ELSE IF tracing \in {"off", "no_library"}
    THEN [client |-> NoClient, kept |-> _langfuse, looked |-> lookups]
    ELSE IF tracing = "no_get_client"
    THEN [client |-> NoClient, kept |-> NoClient, looked |-> lookups]
    ELSE IF tracing = "client"
    THEN [client |-> LangfuseClient, kept |-> LangfuseClient, looked |-> lookups + 1]
    ELSE [client |-> NoClient, kept |-> NoClient, looked |-> lookups + 1]

\* except Exception after the traced block: the chain is invoked again,
\* without tracing.
AfterSpanError == "fallback"

ClientInit ==
    /\ tracing \in TracingEnvironments
    /\ _llm = NoModel
    /\ _langfuse = NoClient
    /\ _langfuse_initialized = FALSE
    /\ constructed = 0
    /\ lookups = 0
    /\ cpc = [c \in Callers |-> "idle"]
    /\ invoked = [c \in Callers |-> 0]
    /\ first = [c \in Callers |-> NotInvoked]
    /\ outcome = [c \in Callers |-> NoOutcome]
    /\ sinkFailed = [c \in Callers |-> FALSE]
    /\ LlmIdle
    /\ FenceIdle
    /\ UowIdle
    /\ YamlIdle
    /\ PromptIdle

\* The call ends in the except path: there, or after the fallback invocation.
EnterExceptPath(c) ==
    IF AfterSpanError = "fallback"
    THEN /\ cpc' = [cpc EXCEPT ![c] = "fallback"]
         /\ outcome' = outcome
    ELSE /\ cpc' = [cpc EXCEPT ![c] = "done"]
         /\ outcome' = [outcome EXCEPT ![c] = Raised]

\* generate (override: the model argument is given) or generate_structured,
\* up to the first await: the prompt is loaded and parsed (loads: without
\* error), the model chosen, the Langfuse client looked up, the span
\* started and the callback handler created (fault: which of the two raises).
Start(c, override, loads, fault) ==
    /\ cpc[c] = "idle"
    /\ IF ~loads
       THEN /\ cpc' = [cpc EXCEPT ![c] = "done"]
            /\ outcome' = [outcome EXCEPT ![c] = Raised]
            /\ UNCHANGED <<_llm, constructed, _langfuse, _langfuse_initialized,
                           lookups, sinkFailed>>
       ELSE /\ IF override \/ _llm # NoModel
               THEN UNCHANGED <<_llm, constructed>>
               ELSE /\ _llm' = DefaultModel(constructed + 1)
                    /\ constructed' = constructed + 1
            /\ _langfuse_initialized' = TRUE
            /\ _langfuse' = LangfuseLookup.kept
            /\ lookups' = LangfuseLookup.looked
            /\ IF LangfuseLookup.client = NoClient
               THEN /\ fault = "none"
                    /\ cpc' = [cpc EXCEPT ![c] = "untraced"]
                    /\ UNCHANGED <<outcome, sinkFailed>>
               ELSE IF fault = "none"
               THEN /\ cpc' = [cpc EXCEPT ![c] = "traced"]
                    /\ UNCHANGED <<outcome, sinkFailed>>
               ELSE /\ sinkFailed' = [sinkFailed EXCEPT ![c] = TRUE]
                    /\ EnterExceptPath(c)
    /\ UNCHANGED <<tracing, invoked, first>>
    /\ UNCHANGED <<llmVars, fenceVars, uowVars, loaderVars>>

\* The chain was invoked once more; its first result is remembered.
Invoked(c, r) ==
    /\ invoked' = [invoked EXCEPT ![c] = @ + 1]
    /\ first' = IF first[c] = NotInvoked THEN [first EXCEPT ![c] = r] ELSE first

\* What the code after an invocation computes: normalize_result of the
\* response, or the exception of the invocation or of normalize_result.
Normalized(r) == IF r.k = "raise" THEN Raised ELSE normalize_result(r.v)

\* The invocation inside the span returns or raises; the rest of the traced
\* block runs: normalize_result, span.update_trace, the exit of the span,
\* and after the block the flush (each of the three may raise).
TracedReturns(c, r, updateFails, exitFails, flushFails) ==
    /\ cpc[c] = "traced"
    /\ Invoked(c, r)
    /\ IF Normalized(r).exc
       THEN /\ ~updateFails /\ ~flushFails
            /\ sinkFailed' = [sinkFailed EXCEPT ![c] = @ \/ exitFails]
            /\ EnterExceptPath(c)
       ELSE IF exitFails
       THEN /\ ~flushFails
            /\ sinkFailed' = [sinkFailed EXCEPT ![c] = TRUE]
            /\ EnterExceptPath(c)
       ELSE /\ sinkFailed' = [sinkFailed EXCEPT ![c] = @ \/ updateFails \/ flushFails]
            /\ cpc' = [cpc EXCEPT ![c] = "done"]
            /\ outcome' = [outcome EXCEPT ![c] = Normalized(r)]
    /\ UNCHANGED <<tracing, _llm, _langfuse, _langfuse_initialized, constructed,
                   lookups>>
    /\ UNCHANGED <<llmVars, fenceVars, uowVars, loaderVars>>

\* The invocation of the except path returns or raises; then the flush.
FallbackReturns(c, r, flushFails) ==
    /\ cpc[c] = "fallback"
    /\ Invoked(c, r)
    /\ Normalized(r).exc => ~flushFails
    /\ sinkFailed' = [sinkFailed EXCEPT ![c] = @ \/ flushFails]
    /\ cpc' = [cpc EXCEPT ![c] = "done"]
    /\ outcome' = [outcome EXCEPT ![c] = Normalized(r)]
    /\ UNCHANGED <<tracing, _llm, _langfuse, _langfuse_initialized, constructed,
                   lookups>>
    /\ UNCHANGED <<llmVars, fenceVars, uowVars, loaderVars>>

\* The invocation made without a Langfuse client returns or raises.
UntracedReturns(c, r) ==
    /\ cpc[c] = "untraced"
    /\ Invoked(c, r)
    /\ cpc' = [cpc EXCEPT ![c] = "done"]
    /\ outcome' = [outcome EXCEPT ![c] = Normalized(r)]
    /\ UNCHANGED <<tracing, _llm, _langfuse, _langfuse_initialized, constructed,
                   lookups, sinkFailed>>
    /\ UNCHANGED <<llmVars, fenceVars, uowVars, loaderVars>>

ClientNext ==
    \E c \in Callers :
        \/ \E override \in BOOLEAN, loads \in BOOLEAN,
              fault \in {"none", "span", "handler"} :
                Start(c, override, loads, fault)
        \/ \E r \in ChainOutcomes, u \in BOOLEAN, x \in BOOLEAN, f \in BOOLEAN :
                TracedReturns(c, r, u, x, f)
        \/ \E r \in ChainOutcomes, f \in BOOLEAN : FallbackReturns(c, r, f)
        \/ \E r \in ChainOutcomes : UntracedReturns(c, r)

ClientSpec == ClientInit /\ [][ClientNext]_vars

\* ----------------------------------------------------- load_yaml_config

\* What is found at a path: nothing; a directory (opening it raises an
\* OSError); a file whose bytes are not UTF-8; a file that is not YAML; a
\* file with no document; a file whose document is a non-empty mapping, a
\* sequence, a scalar.
FileStates ==
    {"missing", "directory", "undecodable", "invalid", "empty", "mapping",
     "sequence", "scalar"}

\* The values of APP_CONFIG_PATH: not set, the empty string, a path.
EnvValues == {"unset", ""} \cup Paths

\* Path.exists()
Exists(path) == files[path] # "missing"

\* The document of a file, as yaml.safe_load returns it.
Document(kind, path) == [t |-> kind, of |-> path]

\* {}
EmptyDict == [t |-> "mapping", of |-> "nothing"]

\* (mutant) the selection that asks for docker_path before the environment.
SelectedPathDockerFirst(local, docker) ==
    IF docker # NoPath /\ Exists(docker)
    THEN [path |-> docker, asked |-> <<docker>>]
    ELSE IF environ \notin {"unset", ""}
    THEN [path |-> environ, asked |-> IF docker # NoPath THEN <<docker>> ELSE <<>>]
    ELSE IF local # NoPath
    THEN [path |-> local, asked |-> IF docker # NoPath THEN <<docker>> ELSE <<>>]
    ELSE [path |-> NoPath, asked |-> IF docker # NoPath THEN <<docker>> ELSE <<>>]

\* The if/elif chain that sets config_path, and the exists() it asks.
SelectedPath(local, docker) ==
    IF environ \notin {"unset", ""}
    THEN [path |-> environ, asked |-> <<>>]
    ELSE IF docker # NoPath /\ Exists(docker)
    THEN [path |-> docker, asked |-> <<docker>>]
    ELSE IF local # NoPath
    THEN [path |-> local, asked |-> IF docker # NoPath THEN <<docker>> ELSE <<>>]
    ELSE [path |-> NoPath, asked |-> IF docker # NoPath THEN <<docker>> ELSE <<>>]

\* The try block on a path that exists: open, yaml.safe_load, and the two
\* except clauses (yaml.YAMLError, IOError).
ReadConfig(path) ==
    CASE files[path] = "directory" -> Returned(EmptyDict)
      [] files[path] = "undecodable" -> RaisedExc("UnicodeDecodeError")
      [] files[path] = "invalid" -> Returned(EmptyDict)
      [] files[path] = "empty" -> Returned(EmptyDict)
      [] OTHER -> Returned(Document(files[path], path))

\* load_yaml_config(local_path, docker_path): what it returns or raises,
\* with the path it selected and the paths it asked for and opened.
load_yaml_config(local, docker) ==
    LET sel == SelectedPath(local, docker)
    IN  IF sel.path = NoPath
        THEN [path |-> NoPath, asked |-> sel.asked, opened |-> <<>>,
              out |-> Returned(EmptyDict)]
        ELSE IF ~Exists(sel.path)
        THEN [path |-> sel.path, asked |-> Append(sel.asked, sel.path),
              opened |-> <<>>, out |-> Returned(EmptyDict)]
        ELSE [path |-> sel.path, asked |-> Append(sel.asked, sel.path),
              opened |-> <<sel.path>>, out |-> ReadConfig(sel.path)]

YamlInit ==
    /\ environ \in EnvValues
    /\ files \in [Paths -> FileStates]
    /\ local_path = NoPath
    /\ docker_path = NoPath
    /\ ypc = "ready"
    /\ config_path = NoPath
    /\ probed = <<>>
    /\ opened = <<>>
    /\ config = NotCalled
    /\ PromptIdle
    /\ LlmIdle
    /\ FenceIdle
    /\ UowIdle
    /\ ClientIdle

\* load_yaml_config(local_path=local, docker_path=docker)
Load(local, docker) ==
    /\ ypc = "ready"
    /\ ypc' = "done"
    /\ local_path' = local
    /\ docker_path' = docker
    /\ config_path' = load_yaml_config(local, docker).path
    /\ probed' = load_yaml_config(local, docker).asked
    /\ opened' = load_yaml_config(local, docker).opened
    /\ config' = load_yaml_config(local, docker).out
    /\ UNCHANGED <<environ, files, promptVars>>
    /\ UNCHANGED <<llmVars, fenceVars, uowVars, clientVars>>

\* The caller is ready for another call.
LoadAgain ==
    /\ ypc = "done"
    /\ ypc' = "ready"
    /\ UNCHANGED <<environ, files, local_path, docker_path, config_path,
                   probed, opened, config, promptVars>>
    /\ UNCHANGED <<llmVars, fenceVars, uowVars, clientVars>>

YamlNext ==
    \/ \E local \in Paths \cup {NoPath}, docker \in Paths \cup {NoPath} :
          Load(local, docker)
    \/ LoadAgain

YamlSpec == YamlInit /\ [][YamlNext]_vars

\* ---------------------------------------------------------- PromptLoader

\* What <base_dir>/<name>.yaml is: nothing; a directory; a file whose bytes
\* are not UTF-8; a file that is not YAML; a file with no document; a
\* sequence; a scalar; a mapping without the key template; a mapping whose
\* template is null, the empty string, the number 0, a text, the number 42.
PromptFiles ==
    {"missing", "directory", "undecodable", "invalid", "empty", "sequence",
     "scalar", "no_template", "template_null", "template_empty",
     "template_zero", "template_text", "template_number"}

\* The exception classes that are a ValueError.
ValueErrors == {"ValueError", "UnicodeDecodeError"}

\* file_path.read_text(encoding="utf-8"): the text, or the exception.
ReadText(file) ==
    CASE file = "missing" -> RaisedExc("FileNotFoundError")
      [] file = "directory" -> RaisedExc("IsADirectoryError")
      [] file = "undecodable" -> RaisedExc("UnicodeDecodeError")
      [] OTHER -> Returned(file)

\* yaml.safe_load of the text: the document, or yaml.YAMLError.
SafeLoad(file) ==
    CASE file = "invalid" -> RaisedExc("YAMLError")
      [] file = "empty" -> Returned([t |-> "none"])
      [] file \in {"sequence", "scalar"} -> Returned([t |-> file])
      [] OTHER -> Returned([t |-> "mapping", doc |-> file])

\* data.get("template"): None, or the value under the key; AttributeError
\* when data is not a mapping.
GetTemplate(data) ==
    IF data.t # "mapping" THEN RaisedExc("AttributeError")
    ELSE CASE data.doc = "template_empty" -> Returned([t |-> "str", s |-> <<>>])
           [] data.doc = "template_zero" -> Returned([t |-> "int", n |-> 0])
           [] data.doc = "template_text" ->
                Returned([t |-> "str", s |-> <<"H", "i">>])
           [] data.doc = "template_number" -> Returned([t |-> "int", n |-> 42])
           [] OTHER -> Returned([t |-> "none"])

\* bool(template)
Truthy(v) ==
    CASE v.t = "none" -> FALSE
      [] v.t = "str" -> v.s # <<>>
      [] v.t = "int" -> v.n # 0

\* PromptLoader.load(name), on what <base_dir>/<name>.yaml is.
load(file) ==
    IF ReadText(file).k = "raise" THEN ReadText(file)
    ELSE IF SafeLoad(file).k = "raise" THEN SafeLoad(file)
    ELSE IF GetTemplate(SafeLoad(file).v).k = "raise"
    THEN GetTemplate(SafeLoad(file).v)
    ELSE IF ~Truthy(GetTemplate(SafeLoad(file).v).v) THEN RaisedExc("ValueError")
    ELSE GetTemplate(SafeLoad(file).v)

PromptInit ==
    /\ base_dir \in [Names -> PromptFiles]
    /\ prompt_name = "greeting"
    /\ ppc = "ready"
    /\ template = NotCalled
    /\ YamlIdle
    /\ LlmIdle
    /\ FenceIdle
    /\ UowIdle
    /\ ClientIdle

\* loader.load(n)
LoadPrompt(n) ==
    /\ ppc = "ready"
    /\ ppc' = "done"
    /\ prompt_name' = n
    /\ template' = load(base_dir[n])
    /\ UNCHANGED <<base_dir, yamlVars>>
    /\ UNCHANGED <<llmVars, fenceVars, uowVars, clientVars>>

\* The caller is ready for another call.
PromptAgain ==
    /\ ppc = "done"
    /\ ppc' = "ready"
    /\ UNCHANGED <<base_dir, prompt_name, template, yamlVars>>
    /\ UNCHANGED <<llmVars, fenceVars, uowVars, clientVars>>

PromptNext ==
    \/ \E n \in Names : LoadPrompt(n)
    \/ PromptAgain

PromptSpec == PromptInit /\ [][PromptNext]_vars

\* ================================================================ claims

\* The value the claim is about: the argument itself, or the one element of
\* the list the caller wrapped it in.
TopLevel == wraps = 0

FieldNames == {"content", "text", "choices", "generations"}

\* The object has the field: hasattr does not answer False.
Exposed(o, name) == AttrOf(o, name).k # "absent"

\* The first field of the order that the object has.
Earliest(o, order) ==
    order[CHOOSE i \in 1..Len(order) :
            /\ Exposed(o, order[i])
            /\ \A j \in 1..(i - 1) : ~Exposed(o, order[j])]

\* The same object with only that one of the four fields.
OnlyField(o, name) ==
    [o EXCEPT !.content = IF name = "content" THEN @ ELSE Absent,
              !.text = IF name = "text" THEN @ ELSE Absent,
              !.choices = IF name = "choices" THEN @ ELSE Absent,
              !.generations = IF name = "generations" THEN @ ELSE Absent]

SeveralFields(o) ==
    o.t = "obj" /\ Cardinality({n \in FieldNames : Exposed(o, n)}) > 1

\* Every field the object has is a plain attribute: no probe or read raises.
AllReadable(o) == \A n \in FieldNames : AttrOf(o, n).k \in {"absent", "val"}

\* ---- C1
\* C1 as stated: normalize_result never propagates an exception, whatever
\* the input: every call that has ended has returned a string.
C1_NeverRaises == pc = "done" => ~returned.exc

\* ---- C2
\* C2 as stated: an object with several of the fields content, text, choices,
\* generations is treated as if it had only the earliest of them in that
\* order (stated here for objects whose fields are all plain attributes).
C2_SpecOrder ==
    (pc = "done" /\ TopLevel /\ SeveralFields(result) /\ AllReadable(result)) =>
        returned = normalize_result(
            OnlyField(result,
                      Earliest(result, <<"content", "text", "choices", "generations">>)))

\* C2 amended: the order is content, choices, generations, text: the object
\* is treated as if it had only the earliest of its fields in that order,
\* except that when the body of the choices rule raises, the whole object is
\* given to _extract_text instead (which looks at its text).
C2_CodeOrder ==
    (pc = "done" /\ TopLevel /\ SeveralFields(result)) =>
        LET f == Earliest(result, <<"content", "choices", "generations", "text">>)
        IN  IF f = "choices" /\ result.choices.k = "val"
               /\ TryChoices(result.choices.v).exc
            THEN returned = Finish(_extract_text(result))
            ELSE returned = normalize_result(OnlyField(result, f))

\* An object with a text and a choices field has yielded the text of its
\* choice, not its own text.
C2_Witness ==
    /\ pc = "done" /\ TopLevel /\ result.t = "obj"
    /\ result.content = Absent
    /\ result.text = Val(PyStr(<<"t">>))
    /\ result.choices = Val(PyList(<<[Plain EXCEPT !.text = Val(PyStr(<<"x">>))]>>))
    /\ returned = Ret(<<"x">>)

\* ---- C3

\* The dict has the key in the way its rule asks: choices with a sequence.
Recognised(d, key) ==
    HasKey(d, key) /\ (key = kChoices => IsSequence(Lookup(d, kChoices)))

EarliestKey(d, order) ==
    order[CHOOSE i \in 1..Len(order) :
            /\ Recognised(d, order[i])
            /\ \A j \in 1..(i - 1) : ~Recognised(d, order[j])]

\* The dict with that one entry only.
OnlyKey(d, key) == PyDict(<<[key |-> KStr(key), val |-> Lookup(d, key)]>>)

SeveralKeys(d) ==
    d.t = "dict"
    /\ Cardinality({k \in {kContent, kChoices, kMessage} : Recognised(d, k)}) > 1

\* C3 as stated: a dict with several of the keys content, choices (a
\* sequence), message is treated as if it had only the earliest of them in
\* that order.
C3_SpecOrder ==
    (pc = "done" /\ TopLevel /\ SeveralKeys(result)) =>
        returned = normalize_result(
            OnlyKey(result, EarliestKey(result, <<kContent, kChoices, kMessage>>)))

\* C3 amended: the order is choices (a sequence), message, content.
C3_CodeOrder ==
    (pc = "done" /\ TopLevel /\ SeveralKeys(result)) =>
        returned = normalize_result(
            OnlyKey(result, EarliestKey(result, <<kChoices, kMessage, kContent>>)))

\* A dict with content and message has yielded its message; one with content
\* and choices would yield its choices.
C3_Witness ==
    /\ pc = "done" /\ TopLevel
    /\ result = PyDict(<<Entry(kContent, PyStr(<<"c">>)),
                         Entry(kMessage, PyStr(<<"m">>))>>)
    /\ returned = Ret(<<"m">>)

\* ---- C4

\* The value inside the list the caller passed.
Wrapped == result.items[1]

\* _extract_text(v) as a list passed to normalize_result calls it for one of
\* its elements: inside the call for the list and inside its comprehension.
ItemText(v) == ExtractAt(v, RecursionLimit - 2)

\* The larger of two numbers.
Larger(a, b) == IF a >= b THEN a ELSE b

RECURSIVE Deepest(_, _)
RECURSIVE Frames(_)

\* The largest Frames among the first n of the values vs.
Deepest(vs, n) == IF n = 0 THEN 0 ELSE Larger(Frames(vs[n]), Deepest(vs, n - 1))

\* How many frames are enough for _extract_text(v) to run as it does with
\* any number more: those of the call for v and of what it calls.
Frames(v) ==
    IF v.t \in {"none", "str"} THEN 1
    ELSE IF v.t \in {"int", "bool"} THEN 2
    ELSE IF v.t = "dict" THEN
        IF HasKey(v, kContent) THEN 1 + Frames(Lookup(v, kContent))
        ELSE Larger(6, 2 + Deepest([i \in 1..Len(v.pairs) |-> v.pairs[i].val],
                                   Len(v.pairs)))
    ELSE IF IsSequence(v) THEN Larger(3, 2 + Deepest(v.items, Len(v.items)))
    ELSE IF HasAttr(v, "content") = "raise" THEN 2
    ELSE IF HasAttr(v, "content") = "yes" THEN
        IF ReadRaises(v, "content") THEN 2
        ELSE 1 + Frames(ReadAttr(v, "content"))
    ELSE IF HasAttr(v, "text") = "raise" THEN 2
    ELSE IF HasAttr(v, "text") = "yes" THEN
        IF ReadRaises(v, "text") THEN 2
        ELSE 1 + Frames(ReadAttr(v, "text"))
    ELSE IF v.model_dump.k = "te_raise" THEN 2
    ELSE IF v.model_dump.k \in {"ok", "te_ok"} /\ v.model_dump.v.t # "none"
         THEN 1 + Frames(v.model_dump.v)
    ELSE IF v.repr.k = "raise" THEN 2
    ELSE 4

\* The values whose top-level dispatch is that of _extract_text: nothing but
\* an object with choices or generations, a dict with a choices sequence or
\* a message, or an object whose content cannot be extracted, is treated
\* differently at the top.
SameAtTop(v) ==
    \/ v.t \in {"none", "str", "int", "bool", "list"}
    \/ v.t = "dict" /\ ~Recognised(v, kChoices) /\ ~HasKey(v, kMessage)
    \/ /\ v.t = "obj"
       /\ v.choices = Absent /\ v.generations = Absent
       /\ \/ v.content = Absent
          \/ v.content.k = "val" /\ ~_extract_text(v.content.v).exc

\* C4 as stated: the list [v] extracts to the same text as v.
C4_SameAtEveryDepth ==
    (pc = "done" /\ wraps = 1 /\ ~inner.exc) => returned = inner

\* C4 amended: below the top level only the case table of _extract_text
\* applies (it has no rule for choices, generations or message): [v]
\* extracts to the fence-stripped _extract_text(v), called for the element of
\* the list; that is what v yields as a top-level input when v is not one of
\* the shapes only the top level knows and the calls nested for [v] stay
\* within the recursion limit.
C4_InnerTable ==
    (pc = "done" /\ wraps >= 1) =>
        /\ returned = Finish(ItemText(Wrapped))
        /\ (SameAtTop(Wrapped) /\ Frames(result) <= RecursionLimit) =>
              returned = inner

\* A choice-list object inside a list has yielded its repr, and its choice
\* text when it was the argument itself.
C4_Witness ==
    /\ pc = "done" /\ wraps = 1
    /\ Wrapped = [Plain EXCEPT !.choices =
                     Val(PyList(<<[Plain EXCEPT !.text = Val(PyStr(<<"t">>))]>>))]
    /\ inner = Ret(<<"t">>)
    /\ returned = Ret(<<"<", "O", ">">>)

\* ---- C5

\* The trimmed text neither begins nor ends with a fence marker, or only one
\* of the two.
NotFenceWrapped(s) ==
    ~(StartsWith(PyStrip(s), FenceMarker) /\ EndsWith(PyStrip(s), FenceMarker))

\* C5: for a string argument the call returns the fence stripper's result
\* for that string, and the string itself, whitespace included, when it is
\* not wrapped in a fence.
C5_StringInput ==
    (pc = "done" /\ result.t = "str") =>
        /\ returned = Ret(strip_markdown_code_fences(result.s))
        /\ NotFenceWrapped(result.s) => returned = Ret(result.s)

\* A string with surrounding whitespace and a fence inside has come back
\* untouched.
C5_Witness ==
    /\ pc = "done"
    /\ result = PyStr(<<SP, "a">> \o FenceMarker \o <<NL>>)
    /\ returned = Ret(<<SP, "a">> \o FenceMarker \o <<NL>>)

\* ---- C6

\* The list holds strings only.
AllStrings(v) == v.t = "list" /\ \A i \in 1..Len(v.items) : v.items[i].t = "str"

\* The strings of such a list, as they are.
RawStrings(v) == [i \in 1..Len(v.items) |-> v.items[i].s]

\* C6: the fence stripper runs once, on the final text: what is returned is
\* the stripper's result for the local output, and the parts of a list of
\* strings enter that output as they are, fences included.
C6_StripOnceAtTheEnd ==
    (pc = "done" /\ ~output.exc) =>
        /\ returned = Ret(strip_markdown_code_fences(output.s))
        /\ AllStrings(result) =>
              output = Ret(JoinLines(SelectSeq(RawStrings(result),
                                               LAMBDA p : p # <<>>)))

\* A fenced string beside another part has kept its fence; a string fenced
\* twice has lost one fence only.
C6_Witness ==
    \/ /\ pc = "done"
       /\ result = PyList(<<PyStr(sFenced), PyStr(sA)>>)
       /\ returned = Ret(sFenced \o <<NL>> \o sA)
    \/ /\ pc = "done"
       /\ result = PyStr(sFencedTwice)
       /\ returned = Ret(sFenced)

\* ---- C7

\* The object whose delegate field (content, else text) answers hasattr and
\* then cannot be read or extracted.
FailingDelegate(v) ==
    /\ v.t = "obj"
    /\ \/ /\ v.content.k \in {"val", "flaky"}
          /\ v.content.k = "val" => _extract_text(v.content.v).exc
       \/ /\ v.content = Absent
          /\ v.text.k \in {"val", "flaky"}
          /\ v.text.k = "val" => _extract_text(v.text.v).exc

\* The same object without the field that failed.
WithoutFailed(v) ==
    IF v.content = Absent THEN [v EXCEPT !.text = Absent]
    ELSE [v EXCEPT !.content = Absent]

\* C7 as stated: when the delegate field fails, the value extracts as the
\* rules below it say: as the same value without that field does.
C7_FallsBack ==
    (pc = "done" /\ wraps = 1 /\ FailingDelegate(Wrapped)) =>
        returned = normalize_result(PyList(<<WithoutFailed(Wrapped)>>))

\* C7 amended: inside _extract_text a content or text field that fails makes
\* the value extract to the empty string; no rule below it is tried.
C7_EmptyOnFailure ==
    (pc = "done" /\ wraps = 1 /\ FailingDelegate(Wrapped)) => returned = Ret(<<>>)

\* An object in a list whose content cannot be read and whose text is "t"
\* has yielded the empty string.
C7_Witness ==
    /\ pc = "done" /\ wraps = 1
    /\ Wrapped.t = "obj"
    /\ Wrapped.content = Flaky
    /\ Wrapped.text = Val(PyStr(<<"t">>))
    /\ returned = Ret(<<>>)

\* ---- C8

\* The fields are plain attributes of the object, or it does not have them.
PlainFields(c, names) ==
    c.t = "obj" /\ \A n \in names : AttrOf(c, n).k \in {"absent", "val"}

\* What the claim lets a choice contribute: its message, else its text, else
\* itself.
ObjectContribution(c) ==
    IF c.message.k = "val" THEN _extract_text(c.message.v)
    ELSE IF c.text.k = "val" THEN _extract_text(c.text.v)
    ELSE _extract_text(c)

DictContribution(d) ==
    IF HasKey(d, kMessage) THEN _extract_text(Lookup(d, kMessage))
    ELSE IF HasKey(d, kText) THEN _extract_text(Lookup(d, kText))
    ELSE _extract_text(d)

\* The parts in order, the empty ones left out, one line break between two.
RECURSIVE JoinedParts(_)
JoinedParts(parts) ==
    IF parts = <<>> THEN <<>>
    ELSE LET rest == JoinedParts(Tail(parts))
         IN  IF Head(parts) = <<>> THEN rest
             ELSE IF rest = <<>> THEN Head(parts)
             ELSE Head(parts) \o <<NL>> \o rest

\* An object without content whose choices are a list of objects, each with
\* plain message and text fields, none of which fails to extract.
ObjectChoiceList(v) ==
    /\ v.t = "obj" /\ v.content = Absent
    /\ v.choices.k = "val" /\ IsSequence(v.choices.v)
    /\ \A i \in 1..Len(v.choices.v.items) :
          /\ PlainFields(v.choices.v.items[i], {"message", "text"})
          /\ ~ObjectContribution(v.choices.v.items[i]).exc

ObjectChoiceParts(v) ==
    [i \in 1..Len(v.choices.v.items) |-> ObjectContribution(v.choices.v.items[i]).s]

\* A dict whose choices are a list of dicts, none of which fails to extract.
DictChoiceList(v) ==
    /\ v.t = "dict" /\ Recognised(v, kChoices)
    /\ \A i \in 1..Len(Lookup(v, kChoices).items) :
          /\ Lookup(v, kChoices).items[i].t = "dict"
          /\ ~DictContribution(Lookup(v, kChoices).items[i]).exc

DictChoiceParts(v) ==
    [i \in 1..Len(Lookup(v, kChoices).items) |->
        DictContribution(Lookup(v, kChoices).items[i]).s]

\* C8: a choice list of objects, or of dicts, extracts to the contributions
\* of its choices (message, else text, else the choice itself), the empty
\* ones left out, in order, one line break between two; that text goes
\* through the fence stripper once.
C8_ChoiceList ==
    (pc = "done" /\ TopLevel) =>
        /\ ObjectChoiceList(result) =>
              /\ output = Ret(JoinedParts(ObjectChoiceParts(result)))
              /\ returned = Ret(strip_markdown_code_fences(
                                    JoinedParts(ObjectChoiceParts(result))))
        /\ DictChoiceList(result) =>
              /\ output = Ret(JoinedParts(DictChoiceParts(result)))
              /\ returned = Ret(strip_markdown_code_fences(
                                    JoinedParts(DictChoiceParts(result))))

\* Two choices, the first with a message and a text, the second with a text
\* only, have yielded the message and the text on two lines.
C8_Witness ==
    /\ pc = "done" /\ TopLevel
    /\ result = [Plain EXCEPT !.choices = Val(PyList(<<
                    [Plain EXCEPT !.message = Val(PyStr(<<"m">>)),
                                  !.text = Val(PyStr(<<"t">>))],
                    [Plain EXCEPT !.text = Val(PyStr(<<"t">>))]>>))]
    /\ returned = Ret(<<"m", NL, "t">>)

\* ---- C9

\* The elements of the generations, nested lists opened one level.
OneLevel(gs) ==
    Flatten([i \in 1..Len(gs) |->
                IF gs[i].t = "list" THEN gs[i].items ELSE <<gs[i]>>])

\* What the claim lets a generation element contribute: its text, else its
\* content, else itself.
GenerationContribution(e) ==
    IF e.t = "obj" /\ e.text.k = "val" THEN _extract_text(e.text.v)
    ELSE IF e.t = "obj" /\ e.content.k = "val" THEN _extract_text(e.content.v)
    ELSE _extract_text(e)

\* An object with generations and no content, text or choices, whose
\* generations are a list of elements with plain fields, none of which fails.
GenerationBatch(v) ==
    /\ v.t = "obj"
    /\ v.content = Absent /\ v.text = Absent /\ v.choices = Absent
    /\ v.generations.k = "val" /\ v.generations.v.t = "list"
    /\ \A i \in 1..Len(OneLevel(v.generations.v.items)) :
          LET e == OneLevel(v.generations.v.items)[i]
          IN  /\ e.t = "obj" => PlainFields(e, {"text", "content"})
              /\ ~GenerationContribution(e).exc

GenerationParts(v) ==
    [i \in 1..Len(OneLevel(v.generations.v.items)) |->
        GenerationContribution(OneLevel(v.generations.v.items)[i]).s]

\* C9: a generation batch extracts to the contributions of its elements
\* (text, else content, else the element itself), nested lists opened exactly
\* one level, the empty ones left out, in order, one line break between two.
C9_GenerationBatch ==
    (pc = "done" /\ TopLevel /\ GenerationBatch(result)) =>
        /\ output = Ret(JoinedParts(GenerationParts(result)))
        /\ returned = Ret(strip_markdown_code_fences(
                              JoinedParts(GenerationParts(result))))

\* An element with text and content contributes its text one level down and
\* its content two levels down.
C9_Witness ==
    LET e == [Plain EXCEPT !.text = Val(PyStr(<<"u">>)),
                           !.content = Val(PyStr(<<"c">>))]
    IN  /\ pc = "done" /\ TopLevel
        /\ result = [Plain EXCEPT !.generations =
                        Val(PyList(<<PyList(<<e>>), PyList(<<PyList(<<e>>)>>)>>))]
        /\ returned = Ret(<<"u", NL, "c">>)

\* ---- C10

\* Where the i-th of the non-empty parts begins in the joined text (counted
\* from 0), when one character separates two parts.
RECURSIVE Offset(_, _)
Offset(ne, i) ==
    IF i = 1 THEN 0 ELSE Offset(ne, i - 1) + Len(ne[i - 1]) + 1

\* out is the non-empty parts, in their order, with exactly one line break
\* between two of them and nothing else; it is empty exactly when every part
\* is.
JoinedInOrder(out, parts) ==
    LET ne == SelectSeq(parts, LAMBDA p : p # <<>>)
    IN  /\ Len(out) = IF Len(ne) = 0 THEN 0
                      ELSE Offset(ne, Len(ne)) + Len(ne[Len(ne)])
        /\ \A i \in 1..Len(ne) :
              /\ SubSeq(out, Offset(ne, i) + 1, Offset(ne, i) + Len(ne[i])) = ne[i]
              /\ i > 1 => out[Offset(ne, i)] = NL
        /\ (out = <<>>) <=> (\A i \in 1..Len(parts) : parts[i] = <<>>)

\* A list none of whose elements fails to extract.
PlainSequence(v) ==
    v.t = "list" /\ \A i \in 1..Len(v.items) : ~ItemText(v.items[i]).exc

\* The parts of the join of a list: the texts of its elements, as the list
\* obtains them.
SequenceParts(v) == [i \in 1..Len(v.items) |-> ItemText(v.items[i]).s]

\* C10: every join (of a sequence, of a choice list, of a generation batch)
\* keeps the order of the parts, leaves the empty parts out and puts exactly
\* one line break between two parts.
C10_Joins ==
    (pc = "done" /\ ~output.exc) =>
        /\ PlainSequence(result) => JoinedInOrder(output.s, SequenceParts(result))
        /\ (TopLevel /\ ObjectChoiceList(result)) =>
              JoinedInOrder(output.s, ObjectChoiceParts(result))
        /\ (TopLevel /\ DictChoiceList(result)) =>
              JoinedInOrder(output.s, DictChoiceParts(result))
        /\ (TopLevel /\ GenerationBatch(result)) =>
              JoinedInOrder(output.s, GenerationParts(result))

\* The list ["", "a", ""] has yielded "a".
C10_Witness ==
    /\ pc = "done"
    /\ result = PyList(<<PyStr(<<>>), PyStr(sA), PyStr(<<>>)>>)
    /\ returned = Ret(sA)

\* ---- C11

\* A dict with none of the keys content, choices, message.
GenericMapping(v) ==
    v.t = "dict" /\ ~HasKey(v, kContent) /\ ~HasKey(v, kChoices) /\ ~HasKey(v, kMessage)

\* The same pairs, inserted in every possible order.
Reorderings(ps) ==
    {[i \in 1..Len(ps) |-> ps[f[i]]] : f \in Permutations(1..Len(ps))}

\* Coercing a key or extracting a value of the dict raises.
PairFails(ps) ==
    \E i \in 1..Len(ps) : KeyStr(ps[i].key).exc \/ _extract_text(ps[i].val).exc

\* The pairs whose key, as text, is met for the first time, in insertion order.
FirstInserted(ps) ==
    SelectSeq([i \in 1..Len(ps) |-> i],
              LAMBDA i : \A j \in 1..(i - 1) : KeyStr(ps[j].key).s # KeyStr(ps[i].key).s)

\* The pair that was inserted last under the same key text as pair i.
LastUnder(ps, i) ==
    CHOOSE j \in 1..Len(ps) :
        /\ KeyStr(ps[j].key).s = KeyStr(ps[i].key).s
        /\ \A k \in (j + 1)..Len(ps) : KeyStr(ps[k].key).s # KeyStr(ps[i].key).s

\* One entry of the text: the key and the extracted value, both as JSON
\* strings, a colon and a space between them.
EntryText(ps, i) ==
    JsonString(KeyStr(ps[i].key).s) \o <<":", SP>>
    \o JsonString(_extract_text(ps[LastUnder(ps, i)].val).s)

RECURSIVE CommaJoined(_)
CommaJoined(parts) ==
    IF parts = <<>> THEN <<>>
    ELSE IF Len(parts) = 1 THEN parts[1]
    ELSE parts[1] \o <<",", SP>> \o CommaJoined(Tail(parts))

\* The text of the pairs in insertion order, in braces.
InsertionOrderText(ps) ==
    <<"{">>
    \o CommaJoined([n \in 1..Len(FirstInserted(ps)) |->
                       EntryText(ps, FirstInserted(ps)[n])])
    \o <<"}">>

\* No two keys of the dict coerce to the same text.
DistinctKeyTexts(ps) ==
    \A i, j \in 1..Len(ps) : i # j => KeyStr(ps[i].key).s # KeyStr(ps[j].key).s

\* C11 as stated: a generic mapping extracts to the same text whatever order
\* its pairs were inserted in.
C11_AnyInsertionOrder ==
    (pc = "done" /\ TopLevel /\ GenericMapping(result) /\ ~returned.exc) =>
        \A ps \in Reorderings(result.pairs) : normalize_result(PyDict(ps)) = returned

\* C11 amended: the entries (key as text, extracted value) are emitted in
\* the insertion order of the pairs, a key whose text was inserted before
\* keeping its place and taking the later value; the call raises exactly when
\* coercing a key or extracting a value does; and inserting the pairs of a
\* mapping whose keys have different texts in another order gives another
\* text.
C11_InsertionOrder ==
    (pc = "done" /\ TopLevel /\ GenericMapping(result)) =>
        /\ returned.exc <=> PairFails(result.pairs)
        /\ ~returned.exc =>
              /\ output = Ret(InsertionOrderText(result.pairs))
              /\ returned = output
              /\ DistinctKeyTexts(result.pairs) =>
                    \A ps \in Reorderings(result.pairs) :
                        ps # result.pairs => normalize_result(PyDict(ps)) # returned

\* The mapping {k: v, j: [a, "]} has yielded its entries with k first; with
\* j inserted first it yields another text.
C11_Witness ==
    /\ pc = "done" /\ TopLevel
    /\ result = PyDict(<<Entry(<<"k">>, PyStr(<<"v">>)),
                         Entry(<<"j">>, PyList(<<PyStr(sA), PyStr(<<QUOTE>>)>>))>>)
    /\ returned = Ret(<<"{", QUOTE, "k", QUOTE, ":", SP, QUOTE, "v", QUOTE, ",", SP,
                        QUOTE, "j", QUOTE, ":", SP,
                        QUOTE, "a", BSL, "n", BSL, QUOTE, QUOTE, "}">>)
    /\ normalize_result(PyDict(<<result.pairs[2], result.pairs[1]>>)) # returned

\* ---- C12

\* An object with none of the fields content, text, choices, generations.
FieldLess(v) ==
    /\ v.t = "obj"
    /\ v.content = Absent /\ v.text = Absent
    /\ v.choices = Absent /\ v.generations = Absent

\* The opaque fallback: the repr of the object, or the empty string when
\* repr raises.
OpaqueFallback(v) == IF v.repr.k = "raise" THEN Ret(<<>>) ELSE Ret(v.repr.s)

\* model_dump cannot produce a mapping: whatever call is made raises.
DumpFails(v) == v.model_dump.k \in {"raise", "te_raise"}

\* model_dump hands back a mapping (called with exclude_none=True), at once
\* or when called again without the warnings keyword.
DumpsMapping(v) == v.model_dump.k \in {"ok", "te_ok"} /\ v.model_dump.v.t = "dict"

\* C12 as stated: an object with no field-based case extracts to the
\* extraction of its dumped mapping; when the dump fails, to its repr; when
\* that fails too, to the empty string.
C12_DumpOrFallback ==
    (pc = "done" /\ TopLevel /\ FieldLess(result)) =>
        /\ DumpsMapping(result) =>
              returned = Finish(_extract_text(result.model_dump.v))
        /\ DumpFails(result) => returned = OpaqueFallback(result)

\* ---- C13

\* A chain: an object whose content is a string, or is a chain.
RECURSIVE IsChain(_)
IsChain(v) ==
    /\ v.t = "obj"
    /\ v.content.k = "val"
    /\ (v.content.v.t = "str" \/ IsChain(v.content.v))

\* How many objects the chain has, and the string at its end.
RECURSIVE ChainDepth(_)
ChainDepth(v) == IF v.t = "str" THEN 0 ELSE 1 + ChainDepth(v.content.v)

RECURSIVE ChainEnd(_)
ChainEnd(v) == IF v.t = "str" THEN v.s ELSE ChainEnd(v.content.v)

\* C13 as stated: a chain of n >= 1 objects, each the content of the one
\* before, with the string s innermost, extracts to s, and returns the fence
\* stripper's result for s, whatever n is.
C13_EveryDepth ==
    (pc = "done" /\ TopLevel /\ IsChain(result)) =>
        /\ output = Ret(ChainEnd(result))
        /\ returned = Ret(strip_markdown_code_fences(ChainEnd(result)))

\* What a call on a chain has handed back: for a chain of at most
\* RecursionLimit objects the string s innermost as extracted text and the
\* fence stripper's result for s as result; for a deeper chain the empty
\* string, and no exception.
ChainWithinLimit ==
    (pc = "done" /\ TopLevel /\ IsChain(result)) =>
        IF ChainDepth(result) <= RecursionLimit
        THEN /\ output = Ret(ChainEnd(result))
             /\ returned = Ret(strip_markdown_code_fences(ChainEnd(result)))
        ELSE /\ output = Ret(<<>>)
             /\ returned = Ret(<<>>)

\* A call that has ended has handed back a string or raised.
Ended ==
    pc = "done" =>
        /\ returned # NoOutcome
        /\ returned.exc \/ returned.s \in Seq(STRING)

\* C13: a chain of n objects, each the content of the one before, with the
\* string s innermost, extracts to s and returns the fence stripper's result
\* for s when n is at most the number of nested calls the recursion limit
\* allows, and returns the empty string when n is greater; and every call
\* that is made ends, with a string or an exception.
C13_ContentChain ==
    /\ [](ChainWithinLimit /\ Ended)
    /\ (pc = "ready") ~> (pc = "done")

\* A chain of as many objects as the recursion limit allows around a fenced
\* string has yielded the string without its fence.
C13_Witness ==
    /\ pc = "done" /\ TopLevel
    /\ IsChain(result) /\ ChainDepth(result) = RecursionLimit
    /\ ChainEnd(result) = sFenced
    /\ returned = Ret(sA)

\* ---- C14

\* The text has a line break, and where its first one is.
HasBreak(t) == \E i \in 1..Len(t) : t[i] = NL

FirstBreak(t) ==
    CHOOSE i \in 1..Len(t) : t[i] = NL /\ \A j \in 1..(i - 1) : t[j] # NL

\* Letters, digits, hyphen and underscore.
TagLetters ==
    {"a", "b", "c", "d", "e", "f", "g", "h", "i", "j", "k", "l", "m",
     "n", "o", "p", "q", "r", "s", "t", "u", "v", "w", "x", "y", "z",
     "A", "B", "C", "D", "E", "F", "G", "H", "I", "J", "K", "L", "M",
     "N", "O", "P", "Q", "R", "S", "T", "U", "V", "W", "X", "Y", "Z",
     "0", "1", "2", "3", "4", "5", "6", "7", "8", "9", "-", "_"}

\* The text begins with an opening line: the marker, a tag of zero or more
\* letters, digits, hyphens, underscores, a line break.
OpeningLine(t) ==
    /\ StartsWith(t, FenceMarker)
    /\ HasBreak(t)
    /\ \A i \in 4..(FirstBreak(t) - 1) : t[i] \in TagLetters

\* The text ends with the closing marker.
ClosingMarker(t) == EndsWith(t, FenceMarker)

\* C14: the stripper returns its argument as it is, surrounding whitespace
\* included, whenever the argument is no string, is empty, or its trimmed
\* form does not both begin with an opening line and end with a closing
\* marker.
C14_Unchanged ==
    (fpc = "done") =>
        ((\/ text.t # "str"
          \/ text.s = <<>>
          \/ ~(OpeningLine(PyStrip(text.s)) /\ ClosingMarker(PyStrip(text.s))))
         => stripped = text)

\* An unclosed fence with whitespace around it, prose before a fence, and a
\* list have come back as they were.
C14_Witness ==
    /\ fpc = "done" /\ passes = 0
    /\ stripped = text
    /\ \/ text = PyStr(<<SP>> \o FenceMarker
                        \o <<"j", "s", "o", "n", NL, "{", "}", NL, TAB>>)
       \/ text = PyStr(<<"s", "o", "m", "e", NL>> \o sTagged)
       \/ text = PyList(<<PyStr(sFenced)>>)

\* ---- C15

\* The text is a whole fence: an opening line, at least one character of
\* content, the closing marker at the very end.
WholeFence(t) ==
    /\ OpeningLine(t)
    /\ ClosingMarker(t)
    /\ Len(t) >= FirstBreak(t) + 1 + 3

\* What stands between the first line break and the final closing marker.
FenceContent(t) == SubSeq(t, FirstBreak(t) + 1, Len(t) - 3)

\* The tags made of tag letters only.
ProperTags == {tag \in Tags : \A i \in 1..Len(tag) : tag[i] \in TagLetters}

\* C15: when the trimmed text is a whole fence, the stripper returns what
\* stands between the first line break and the final closing marker,
\* trimmed; the same fence under any other tag, and the fence without the
\* whitespace around it, give the same result.
C15_WholeFence ==
    (fpc = "done" /\ text.t = "str" /\ WholeFence(PyStrip(text.s))) =>
        LET t == PyStrip(text.s)
        IN  /\ stripped = PyStr(PyStrip(FenceContent(t)))
            /\ StripCall(PyStr(t)) = stripped
            /\ \A tag \in ProperTags :
                  StripCall(PyStr(FenceMarker \o tag \o <<NL>>
                                  \o FenceContent(t) \o FenceMarker)) = stripped

\* A fence tagged JSON, with whitespace around it, has yielded its content.
C15_Witness ==
    /\ fpc = "done" /\ passes = 0
    /\ text = PyStr(<<NL, TAB>> \o FenceMarker
                    \o <<"J", "S", "O", "N", NL, "{", "}", NL>>
                    \o FenceMarker \o <<SP>>)
    /\ stripped = PyStr(<<"{", "}">>)

\* ---- C16

\* C16 as stated: stripping what the stripper returned changes nothing.
C16_Idempotent ==
    (fpc = "done" /\ passes >= 1) => stripped = text

\* C16 amended: the stripper removes one fence per call.  Stripping what it
\* returned changes nothing unless that is itself a whole fence (the text was
\* a fence inside a fence), and then removes that fence in turn.
C16_OneFencePerCall ==
    (fpc = "done" /\ passes >= 1) =>
        IF text.t = "str" /\ WholeFence(PyStrip(text.s))
        THEN /\ stripped = PyStr(PyStrip(FenceContent(PyStrip(text.s))))
             /\ stripped # text
        ELSE stripped = text

\* The content of a fence, passed to the stripper again, has come back as it
\* was.
C16_Witness ==
    /\ fpc = "done" /\ passes = 1
    /\ text = PyStr(<<"{", "}">>)
    /\ stripped = text

\* ---- C17

\* The text has three backticks in a row somewhere.
HasMarker(b) == \E i \in 1..(Len(b) - 2) : SubSeq(b, i, i + 2) = FenceMarker

\* The text is an opening marker line, a body, a line break and a closing
\* marker; the body.
BareFence(t) ==
    /\ Len(t) >= 8
    /\ StartsWith(t, FenceMarker \o <<NL>>)
    /\ EndsWith(t, <<NL>> \o FenceMarker)

BareBody(t) == SubSeq(t, 5, Len(t) - 4)

\* C17 as stated: the stripper returns exactly the body.
C17_RoundTrip ==
    (fpc = "done" /\ passes = 0 /\ text.t = "str"
     /\ BareFence(text.s) /\ ~HasMarker(BareBody(text.s))) =>
        stripped = PyStr(BareBody(text.s))

\* C17 amended: the stripper returns the body with its leading and trailing
\* whitespace removed: exactly the body when the body neither begins nor ends
\* with whitespace.
C17_RoundTripTrimmed ==
    (fpc = "done" /\ passes = 0 /\ text.t = "str"
     /\ BareFence(text.s) /\ ~HasMarker(BareBody(text.s))) =>
        /\ stripped = PyStr(PyStrip(BareBody(text.s)))
        /\ (stripped = PyStr(BareBody(text.s))) <=>
              (\/ BareBody(text.s) = <<>>
               \/ /\ Head(BareBody(text.s)) \notin Whitespace
                  /\ BareBody(text.s)[Len(BareBody(text.s))] \notin Whitespace)

\* The body " a" has come back as "a"; the body with two backticks as it is.
C17_Witness ==
    \/ /\ fpc = "done" /\ passes = 0
       /\ text = PyStr(FenceMarker \o <<NL, SP, "a", NL>> \o FenceMarker)
       /\ stripped = PyStr(sA)
    \/ /\ fpc = "done" /\ passes = 0
       /\ text = PyStr(FenceMarker \o <<NL, BT, BT, "a", NL>> \o FenceMarker)
       /\ stripped = PyStr(<<BT, BT, "a">>)

\* ---- C19

\* How many of the awaits are a commit or a rollback.
Settlements(ops) ==
    Cardinality({i \in 1..Len(ops) : ops[i].op \in {"commit", "rollback"}})

Has(ops, op) == \E i \in 1..Len(ops) : ops[i].op = op

\* The awaits were made, in that order, among those recorded on the sessions.
RECURSIVE Among(_, _)
Among(ops, log) ==
    IF ops = <<>> THEN TRUE
    ELSE IF log = <<>> THEN FALSE
    ELSE IF Head(ops) = Head(log) THEN Among(Tail(ops), Tail(log))
    ELSE Among(ops, Tail(log))

\* An __aexit__ that began with an active session has called exactly one of
\* commit and rollback, on that session: commit if and only if the block
\* did not raise, rollback if and only if it did.
SettlesOnce(c) ==
    /\ Settlements(c.ops) = 1
    /\ c.ops[1].op \in {"commit", "rollback"}
    /\ c.ops[1].on = c.on
    /\ Has(c.ops, "commit") <=> ~c.exc
    /\ Has(c.ops, "rollback") <=> c.exc
    /\ Among(c.ops, calls)

\* C19: an __aexit__ that began with an active session, ended or suspended
\* at an await, has awaited exactly one of commit and rollback on it: commit
\* if and only if the block did not raise, rollback if and only if it did;
\* one that began with no session has awaited nothing, and as long as no
\* session was ever accessed nothing has been awaited at all.
C19_ExitSettlesOnce ==
    /\ (last.op = "aexit" /\ last.on # NoSession) => SettlesOnce(last)
    /\ \A i \in Slots : flight[i].op = "aexit" =>
          (flight[i].on # NoSession /\ SettlesOnce(flight[i]))
    /\ (last.op = "aexit" /\ last.on = NoSession) => last.ops = <<>>
    /\ (_session = NoSession /\ made = 0) => calls = <<>>

\* A block that raised has been left with a session of the unit of work's
\* own while an explicit commit was suspended: the exit has awaited
\* rollback, then close, on it, and the commit was called in between.
C19_Witness ==
    /\ last.op = "aexit" /\ last.exc
    /\ last.on = CreatedSession(1)
    /\ last.ops = <<Await("rollback", CreatedSession(1)),
                    Await("close", CreatedSession(1))>>
    /\ ~last.raised
    /\ calls = <<Await("rollback", CreatedSession(1)),
                 Await("commit", CreatedSession(1)),
                 Await("close", CreatedSession(1))>>

\* ---- C20

\* C20: close is never awaited on the session injected at construction.
C20_InjectedNeverClosed ==
    \A i \in 1..Len(calls) :
        calls[i].op = "close" => calls[i].on # InjectedSession

\* The injected session has gone through an explicit commit, an exit of a
\* block that raised and an exit of one that did not, and was not closed.
C20_Witness ==
    /\ _injected_session = InjectedSession
    /\ last.op = "aexit" /\ ~last.exc /\ ~last.raised
    /\ last.on = InjectedSession
    /\ \E i, j \in 1..Len(calls) :
          /\ i < j /\ j < Len(calls)
          /\ calls[i] = Await("commit", InjectedSession)
          /\ calls[j] = Await("rollback", InjectedSession)
    /\ \A i \in 1..Len(calls) : calls[i].op # "close"

\* ---- C18

\* What the call returns when tracing is disabled, for the response the model
\* gave: normalize_result of it.
WithoutTracing(r) == normalize_result(r.v)

\* The model answered the call's first invocation with a response that
\* normalize_result turns into a string.
Answered(c) == first[c].k = "ok" /\ ~WithoutTracing(first[c]).exc

\* C18 as stated: a call that the model answered and during which a tracing
\* operation raised (starting the span, creating the handler, updating the
\* trace, leaving the span, flushing) does not raise and returns what it
\* returns with tracing disabled: normalize_result of the model's response.
C18_SinkFailureHarmless ==
    \A c \in Callers :
        (cpc[c] = "done" /\ sinkFailed[c] /\ Answered(c)) =>
            outcome[c] = WithoutTracing(first[c])

\* ---- C21

\* The session was created by the unit of work itself.
Created(s) == s[1] = "created"

\* C21 as stated: an __aexit__ that began with an active session the unit of
\* work had created has awaited close on it, last and after the commit or
\* the rollback, whether the block raised or not, and has left no owned
\* session behind.
C21_OwnedSessionClosed ==
    (last.op = "aexit" /\ Created(last.on)) =>
        /\ Len(last.ops) = 2
        /\ last.ops[1] = Await(IF last.exc THEN "rollback" ELSE "commit", last.on)
        /\ last.ops[2] = Await("close", last.on)
        /\ Among(last.ops, calls)
        /\ _session = NoSession
        /\ ~_owns_session

\* ---- C22

\* A step that reads the session property, directly or for a repository.
Access == session \/ repository

\* A step in which an __aexit__ reaches its end: one that began with no
\* session, or one whose last await returns.
Exit ==
    \/ _session = NoSession /\ \E exc \in BOOLEAN : __aexit__(exc)
    \/ \E i \in Slots :
          /\ flight[i].op = "aexit"
          /\ Len(flight[i].ops) = Len(flight[i].plan)
          /\ AwaitReturns(i)

\* The sessions that _create_session has returned so far.
SessionsMade == {CreatedSession(n) : n \in 1..made}

\* What the steps do to the session held: a read of the session property
\* while a session is held returns that session and creates none; a read
\* while none is held creates at most one, different from all created
\* before, and holds it from then on; an exit that ends while the unit of
\* work owns a session leaves _session None and _owns_session False, and no
\* other step drops or replaces the session held.
LazyCachedStep ==
    /\ (Access /\ _session # NoSession) =>
          (_session' = _session /\ made' = made /\ creates' = creates)
    /\ (Access /\ _session = NoSession) =>
          \/ _session' = NoSession /\ made' = made /\ last'.raised
                /\ creates' = creates + 1
          \/ _session' = _injected_session /\ made' = made
                /\ _injected_session # NoSession /\ creates' = creates
          \/ _session' = CreatedSession(made') /\ made' = made + 1
                /\ _session' \notin SessionsMade /\ _owns_session'
                /\ creates' = creates + 1
    /\ (Exit /\ _owns_session) =>
          (_session' = NoSession /\ ~_owns_session')
    /\ (~Exit /\ _session # NoSession) => _session' = _session
    /\ ~Access => made' = made
    /\ Exit => creates' = 0
    /\ (~Exit /\ ~Access) => creates' = creates

\* C22 as stated: the session property is lazy and cached, and between two
\* exits _create_session is called at most once.
C22_CalledOnce ==
    /\ [](creates <= 1)
    /\ [][LazyCachedStep]_vars

\* C22: the session property is lazy and cached (LazyCachedStep); between
\* two exits _create_session returns at most one session, and is called at
\* most once when the subclass overrides it with a method that returns; the
\* method of the base class, which raises, is called again by every read
\* and leaves no session held.
C22_LazyCached ==
    /\ [](/\ factory => creates <= 1
          /\ creates > 1 => (_session = NoSession /\ made = 0))
    /\ [][LazyCachedStep]_vars

\* C22 (witness): after an exit released the first session it created, a
\* read of the session property found none held and created a second one.
C22_Witness ==
    /\ made = 2 /\ creates = 1
    /\ last.op = "session" /\ last.on = NoSession
    /\ _session = CreatedSession(2) /\ _owns_session
    /\ \E i \in 1..Len(calls) : calls[i] = Await("close", CreatedSession(1))

\* ---- C23

\* C23 as stated: every __aexit__, with or without a session, after a block
\* that raised or not, has called _clear_repos, and no cached repository is
\* left when it has finished.
C23_ReposClearedOnExit ==
    last.op = "aexit" => (last.cleared /\ ~cached)

\* ---- C28

\* C28: whenever _owns_session is true, _session is a session and not the
\* injected one; with a session injected at construction, _owns_session is
\* never true, _create_session has returned nothing and no read of the
\* session property has raised, and no session but the injected one was
\* ever held or awaited on.
C28_Ownership ==
    /\ _owns_session =>
          (_session # NoSession /\ _session # _injected_session /\ Created(_session))
    /\ _injected_session # NoSession =>
          /\ ~_owns_session
          /\ made = 0
          /\ _session \in {NoSession, _injected_session}
          /\ last.op \in {"session", "repository"} => ~last.raised
          /\ \A i \in 1..Len(calls) : calls[i].on = _injected_session

\* C28 (witness): an exit whose commit or rollback raised has left the unit
\* of work owning the session it created.
C28_Witness ==
    /\ last.op = "aexit" /\ last.raised
    /\ _owns_session /\ _session = CreatedSession(1)

\* ---- C27

\* C27 as stated: a finished call that reached the model chain has invoked
\* it exactly once, with tracing or without: an answer is not asked for
\* again, and an invocation that raised is handed to the caller as it is.
C27_InvokedOnce ==
    \A c \in Callers :
        (cpc[c] = "done" /\ first[c] # NotInvoked) =>
            /\ invoked[c] = 1
            /\ first[c].k = "raise" => outcome[c] = Raised

\* ---- C29

\* A call with a model override starts.
StartWithOverride ==
    \E c \in Callers, loads \in BOOLEAN, fault \in {"none", "span", "handler"} :
        Start(c, TRUE, loads, fault)

\* C29: however the calls on one client interleave at their awaits, the
\* default model is constructed at most once and get_client is called at
\* most once; once the lookup was made its outcome, a client or none, is
\* kept and the lookup is not made again; the cached default model is never
\* replaced; and a call with a model override neither creates nor replaces it.
C29_LazyOnce ==
    /\ [](/\ constructed <= 1
          /\ lookups <= 1
          /\ _llm = (IF constructed = 0 THEN NoModel ELSE DefaultModel(1))
          /\ ~_langfuse_initialized => (lookups = 0 /\ _langfuse = NoClient))
    /\ [][/\ _langfuse_initialized =>
                /\ _langfuse_initialized'
                /\ _langfuse' = _langfuse
                /\ lookups' = lookups
          /\ _llm # NoModel => _llm' = _llm
          /\ StartWithOverride => (_llm' = _llm /\ constructed' = constructed)]_vars

\* C29 (witness): two calls are in flight at once, both awaiting the model
\* inside a span, after one construction of the default model and one
\* lookup of the Langfuse client.
C29_Witness ==
    /\ cpc[1] = "traced" /\ cpc[2] = "traced"
    /\ constructed = 1 /\ lookups = 1
    /\ _llm = DefaultModel(1) /\ _langfuse = LangfuseClient

\* ---- C30

\* An object with a choices attribute (and no content) whose items are all
\* mappings with a message or a text key.
ObjectWithMappingChoices(v) ==
    /\ v.t = "obj" /\ v.content = Absent
    /\ v.choices.k = "val" /\ IsSequence(v.choices.v)
    /\ Len(v.choices.v.items) >= 1
    /\ \A i \in 1..Len(v.choices.v.items) :
          /\ v.choices.v.items[i].t = "dict"
          /\ HasKey(v.choices.v.items[i], kMessage) \/ HasKey(v.choices.v.items[i], kText)

\* The same response with the choices under a mapping key.
AllMappingForm(v) == PyDict(<<Entry(kChoices, v.choices.v)>>)

\* C30 as stated: an object whose choices are mappings with a message or a
\* text key extracts to the text its all-mapping form extracts to (message,
\* else text, joined by line breaks), not to a serialization of the mappings.
C30_SameAsMappingForm ==
    (pc = "done" /\ TopLevel /\ ObjectWithMappingChoices(result)) =>
        returned = normalize_result(AllMappingForm(result))

\* ---- C24

\* APP_CONFIG_PATH is set and not empty.
EnvGiven == environ \notin {"unset", ""}

\* docker_path is given and something is there.
DockerFound == docker_path # NoPath /\ files[docker_path] # "missing"

\* The candidate the order of precedence names.
Candidate ==
    IF EnvGiven THEN environ
    ELSE IF DockerFound THEN docker_path
    ELSE local_path

\* C24: a call has selected the candidate the precedence names (the
\* environment variable if set and not empty, else docker_path if given and
\* existing, else local_path); it has opened nothing but that path, at most
\* once; when nothing is at that path it has returned {} and opened
\* nothing; and the only other path it has asked about is a docker_path
\* that precedes the selected one and does not exist.
C24_Precedence ==
    ypc = "done" =>
        /\ config_path = Candidate
        /\ opened = (IF Candidate # NoPath /\ files[Candidate] # "missing"
                     THEN <<Candidate>> ELSE <<>>)
        /\ (Candidate = NoPath \/ files[Candidate] = "missing") =>
              config = Returned(EmptyDict)
        /\ \A i \in 1..Len(probed) :
              probed[i] # Candidate =>
                  (~EnvGiven /\ probed[i] = docker_path /\ ~DockerFound)

\* C24 (witness): the environment variable names a path with nothing at it
\* while docker_path and local_path both hold a configuration; the call has
\* returned {} without opening either.
C24_Witness ==
    /\ ypc = "done"
    /\ environ = "p1" /\ docker_path = "p2" /\ local_path = "p3"
    /\ files = [p \in Paths |-> IF p = "p1" THEN "missing" ELSE "mapping"]
    /\ config = Returned(EmptyDict) /\ opened = <<>> /\ probed = <<"p1">>

\* ---- C25

\* C25 as stated: a call has not raised and has returned a dictionary: the
\* mapping of the selected file when that file holds one, and {} when
\* nothing is found, the file is empty, or it cannot be read or parsed.
C25_AlwaysADict ==
    ypc = "done" =>
        /\ config.k = "return"
        /\ config.v.t = "mapping"
        /\ config.v = (IF Candidate # NoPath /\ files[Candidate] = "mapping"
                       THEN Document("mapping", Candidate) ELSE EmptyDict)

\* ---- C26

\* The file of the call.
PromptFile == base_dir[prompt_name]

\* The file holds a mapping whose template is not empty.
HasTemplate(file) == file \in {"template_text", "template_number"}

\* C26 as stated: a call has ended in one of three ways: it has returned the
\* non-empty template of the file; it has raised FileNotFoundError, exactly
\* when the file does not exist; it has raised a ValueError, whenever the
\* file exists (as a file) and its template is missing or empty or its
\* document is malformed.
C26_ThreeOutcomes ==
    ppc = "done" =>
        /\ HasTemplate(PromptFile) =>
              (template.k = "return" /\ Truthy(template.v))
        /\ PromptFile = "missing" <=>
              template = RaisedExc("FileNotFoundError")
        /\ (~HasTemplate(PromptFile) /\ PromptFile \notin {"missing", "directory"}) =>
              (template.k = "raise" /\ template.cls \in ValueErrors)

====
